---- MODULE Spec2Model ----
(***************************************************************************)
(* Model of the statistical estimation core of the SVMP tools              *)
(* (tools/scripts/svmp_93.py and the Monte Carlo driver of                 *)
(* tools/scripts/sw_area_change_93.py) and of the transect and site        *)
(* statistics (tools/scripts/sitestatsdb.py, tools/scripts/svmp_10x.py,    *)
(* tools/scripts/svmpUtils.py).                                            *)
(*                                                                         *)
(* Numbers.  The program computes with Python floats.  The model computes  *)
(* with exact rationals <<numerator, denominator>> (denominator > 0,       *)
(* lowest terms), so every formula is evaluated in the order the code      *)
(* evaluates it but without rounding.  A square root x ** 0.5 is kept as   *)
(* the symbolic value Sqrt(x); it raises ValueError for x < 0, as Python 2 *)
(* does.  None is the empty tuple.  A raised exception is recorded in the  *)
(* field exc of the object under construction.                             *)
(*                                                                         *)
(* Inputs.  The site areas, variances and sample areas and the geometry    *)
(* sums of the strata are the double fields of the tables: they reach the  *)
(* program as floats, so every "/" of the statistics is a float division.  *)
(* The site counts (Ni, ni) are integers.                                  *)
(***************************************************************************)
EXTENDS Integers, Sequences, FiniteSets, TLC

VARIABLES
    pc,            \* position of the run being modelled
    stratum,       \* the stratum object of the samples
    conversion,    \* unit conversion flag (unit_convert)
    sites_list,    \* SampleStats.__init__ argument: list of site rows
    samp,          \* the SampleStats object under construction
    y1_data,       \* rows of all sites of the stratum sampled in year 1
    y1match_data,  \* year-1 rows of the sites sampled in both years
    y2match_data,  \* year-2 rows of the sites sampled in both years
    y1Samp,        \* sample of y1_data
    y1mSamp,       \* sample of y1match_data
    y2mSamp,       \* sample of y2match_data
    change,        \* the ChangeStats object of the stratum
    y1samples,     \* year-1 samples of the strata calculated so far
    chgstats,      \* ChangeStats objects of the strata calculated so far
    y1annualCalc,  \* AnnualEstimate of year 1, all strata combined
    zmChangeAll,   \* ChangeStatsTotal, all strata combined
    rng,           \* state of the random number generator
    y1, y1m, y2m,  \* mc_stratum: the lists handed to measurement_error
    me,            \* measurement_error in progress: its locals
    me1, me1m, me2m,  \* mc_stratum: the lists measurement_error returned
    rel_changes,   \* mc_relative_change: the relative changes recorded so far
    mc_ci,         \* the call of conf_int: its pct_ci and its outcome
    tables,        \* the site tables and stratum objects of the four strata
    iterations,    \* mc_relative_change: its argument
    iteration,     \* mc_relative_change: the loop variable i
    trkFlagDict,   \* calc_transStats: flags and track type of each transect
    tracks,        \* calc_transStats: the transects still to be calculated
    trkAcc,        \* calc_transStats: the sums and extremes of the transect
    trkRows,       \* calc_transStats: the rows of the transect read so far
    allTrkStats,   \* calc_transStats: the transect statistics calculated
    trans_table,   \* the rows of the annual transects table
    sample_area,   \* area of the sample polygon of the site
    siteStats,     \* calc_siteStats: its outcome for the site
    siteStats10x,  \* svmp_10x: Transects.veg_fractions and SiteStatistics
    siteList,      \* sitestatsdb run: the sites with their input data
    sites_done,    \* sitestatsdb run: number of sites of the loop done
    sites_minus_non_slpr,  \* the sites handed to calc_siteStats
    sites_no_slpr, \* sitestatsdb run: sites without transect statistics
    site_table,    \* the rows of the annual sites table
    warning,       \* sitestatsdb run: the sites named in the final warning
    script,        \* soundwide run: the script run
    sites_strata,  \* soundwide run: the strata of the sites, a list per lookup
    site_extrap,   \* soundwide run: the lookups done, a list per lookup
    errors,        \* soundwide run: the messages given to gp.AddError
    strata_calcs,  \* soundwide run: the strata whose statistics are calculated
    outFiles,      \* soundwide run: the output files written
    mySite,        \* a Site object
    mySite_args,   \* the arguments the Site object was made from
    ctlFile,       \* get_Flags: the lines of the control file not read yet
    flagLocals,    \* get_Flags: trk, maxFlag, minFlag and trkType
    survey_dict,   \* Transect.importSurveys: its argument
    surveys        \* Transect.surveys

sampleVars == <<sites_list, samp>>
dataVars == <<y1_data, y1match_data, y2match_data>>
statVars == <<y1Samp, y1mSamp, y2mSamp, change>>
changeVars == <<dataVars, statVars>>
totalVars == <<y1samples, chgstats, y1annualCalc, zmChangeAll>>
simVars == <<y1, y1m, y2m, me, me1, me1m, me2m>>
mcVars == <<rng, simVars>>
ciVars == <<rel_changes, mc_ci>>
runVars == <<tables, iterations, iteration>>
transVars == <<trkFlagDict, tracks, trkAcc, trkRows, allTrkStats>>
siteVars == <<trans_table, sample_area, siteStats, siteStats10x>>
dbVars == <<siteList, sites_done, sites_minus_non_slpr, sites_no_slpr,
           site_table, warning>>
statsdbVars == <<transVars, siteVars, dbVars>>
lookupVars == <<script, sites_strata, site_extrap, errors, strata_calcs, outFiles>>
objVars == <<mySite, mySite_args>>
ctlVars == <<ctlFile, flagLocals>>
surveyVars == <<survey_dict, surveys>>
otherVars == <<lookupVars, objVars, ctlVars, surveyVars>>
laterVars == <<ciVars, runVars, statsdbVars, otherVars>>
vars == <<pc, stratum, conversion, sampleVars, changeVars, totalVars, mcVars,
          laterVars>>

-----------------------------------------------------------------------------
(* Float arithmetic, as exact rationals *)

None == <<>>

Abs(n) == IF n < 0 THEN -n ELSE n

RECURSIVE GCD(_, _)
GCD(a, b) == IF b = 0 THEN a ELSE GCD(b, a % b)

Norm(n, d) ==
    LET g == GCD(Abs(n), d) IN <<n \div g, d \div g>>

Rat(n) == <<n, 1>>
Frac(n, d) == Norm(n, d)
Zero == <<0, 1>>
One == <<1, 1>>

RAdd(a, b) ==
    LET g == GCD(a[2], b[2])
    IN  Norm(a[1] * (b[2] \div g) + b[1] * (a[2] \div g), (a[2] \div g) * b[2])
RNeg(a) == <<-a[1], a[2]>>
RSub(a, b) == RAdd(a, RNeg(b))
RMul(a, b) ==
    LET g1 == GCD(Abs(a[1]), b[2])
        g2 == GCD(Abs(b[1]), a[2])
    IN  Norm((a[1] \div g1) * (b[1] \div g2), (a[2] \div g2) * (b[2] \div g1))
RSq(a) == RMul(a, a)
RIsZero(a) == a[1] = 0
\* a / b for b # 0 (the callers raise ZeroDivisionError for b = 0)
RDiv(a, b) ==
    IF b[1] > 0 THEN RMul(a, <<b[2], b[1]>>) ELSE RMul(a, <<-b[2], -b[1]>>)
RLt(a, b) == RSub(a, b)[1] < 0
RLe(a, b) == RSub(a, b)[1] <= 0

\* Python's sum() of a list of floats
RECURSIVE sum(_)
sum(s) == IF s = <<>> THEN Zero ELSE RAdd(sum(SubSeq(s, 1, Len(s) - 1)), s[Len(s)])

\* x ** 0.5, kept symbolic: the value whose square is x
Sqrt(x) == [radicand |-> x]
SqOfSqrt(r) == r.radicand

-----------------------------------------------------------------------------
(* svmpUtils.sf_m = 0.304800609601219, to two significant digits *)
sf_m == Frac(3, 10)

NoConv == "None"

(* Site.__init__ and Site.convert_units *)
convert_units(site, conv) ==
    IF conv = "sf2m"
    THEN [site EXCEPT
            !.zmArea = RMul(site.zmArea, RSq(sf_m)),
            !.zmAreaVar = RMul(site.zmAreaVar, RSq(RSq(sf_m))),
            !.a2j = IF site.a2j # None /\ ~RIsZero(site.a2j)
                    THEN RMul(site.a2j, RSq(sf_m))
                    ELSE site.a2j]
    ELSE [site EXCEPT !.exc = "ValueError"]

Site(id, zmArea, zmAreaVar, a2j, conv) ==
    LET self == [id |-> id, zmArea |-> zmArea, zmAreaVar |-> zmAreaVar,
                 a2j |-> a2j, conversion |-> conv, exc |-> "none"]
    IN  IF conv # NoConv THEN convert_units(self, conv) ELSE self

(* Sample.importSites: a row is [id, zmArea, zmAreaVar] or                 *)
(* [id, zmArea, zmAreaVar, a2j]                                            *)
importSites(rows, conv) ==
    [i \in 1..Len(rows) |->
        Site(rows[i][1], rows[i][2], rows[i][3],
             IF Len(rows[i]) = 4 THEN rows[i][4] ELSE None, conv)]

_site_attrs_id(sites) == [i \in 1..Len(sites) |-> sites[i].id]
_site_attrs_zmArea(sites) == [i \in 1..Len(sites) |-> sites[i].zmArea]
_site_attrs_zmAreaVar(sites) == [i \in 1..Len(sites) |-> sites[i].zmAreaVar]
_site_attrs_a2j(sites) == [i \in 1..Len(sites) |-> sites[i].a2j]

-----------------------------------------------------------------------------
(* Strata.  Ni and the geometry sum come from the GIS layer. *)
BaseStratum(analysis, extrapolation) ==
    [analysis |-> analysis, extrapolation |-> extrapolation,
     Ni |-> 0, A2 |-> None, LT |-> None, LN |-> None]

FlatsStratum(analysis, extrapolation, count, geometry_sum, conv) ==
    [analysis |-> analysis, extrapolation |-> extrapolation,
     Ni |-> count,
     A2 |-> IF conv # NoConv THEN RMul(geometry_sum, RSq(sf_m)) ELSE geometry_sum,
     LT |-> None, LN |-> None]

FringeLN(count) == RMul(Rat(count), Rat(1000))

FringeStratum(analysis, extrapolation, count, geometry_sum, conv) ==
    [analysis |-> analysis, extrapolation |-> extrapolation,
     Ni |-> count,
     A2 |-> None,
     LT |-> IF conv # NoConv THEN RMul(geometry_sum, sf_m) ELSE geometry_sum,
     LN |-> FringeLN(count)]

-----------------------------------------------------------------------------
(* Sample.__init__ *)
Sample(rows, strat, conv) ==
    LET sites == importSites(rows, conv)
    IN  [exc |-> IF \E i \in 1..Len(sites) : sites[i].exc # "none"
                 THEN "ValueError" ELSE "none",
         sites |-> sites, stratum |-> strat, conversion |-> conv,
         site_ids |-> _site_attrs_id(sites),
         zm_areas |-> _site_attrs_zmArea(sites),
         zm_vars |-> _site_attrs_zmAreaVar(sites),
         ni |-> Len(sites),
         meanZmArea |-> None, variance |-> None,
         a2js |-> None, Aij |-> None, R |-> None,
         zm_area |-> None, zm_area_var |-> None, se |-> None, cv |-> None]

Fail(self, e) == [self EXCEPT !.exc = e]

(* SampleStats.meanZmArea: sumArea / float(len(sites)), len(sites) > 0 *)
meanZmArea(sites) == RDiv(sum(_site_attrs_zmArea(sites)), Rat(Len(sites)))

(* SampleStats.variance: ((1 / (float(len(sites)) - 1)) * sum_sqdif), the  *)
(* square of stddev; len(sites) > 1                                        *)
variance(sites, mean) ==
    LET sqdif == [i \in 1..Len(sites) |-> RSq(RSub(sites[i].zmArea, mean))]
    IN  RMul(RDiv(One, Rat(Len(sites) - 1)), sum(sqdif))

(* SampleStats.zm_area, by extrapolation type *)
zm_area_none(self) == sum(self.zm_areas)
\* variant: extrapolates the mean by the site count instead of by area
zm_area_area_by_count(self) == RMul(self.meanZmArea, Rat(self.stratum.Ni))
zm_area_area(self) == RDiv(RMul(sum(self.zm_areas), self.stratum.A2), self.Aij)
\* variant: leaves out the length ratio LT / LN
zm_area_linear_no_ratio(self) == RMul(self.meanZmArea, Rat(self.stratum.Ni))
zm_area_linear(self) ==
    RMul(RMul(RDiv(self.stratum.LT, self.stratum.LN), self.meanZmArea),
         Rat(self.stratum.Ni))

zm_area(self) ==
    CASE self.stratum.extrapolation = "none" -> zm_area_none(self)
      [] self.stratum.extrapolation = "area" -> zm_area_area(self)
      [] self.stratum.extrapolation = "linear" -> zm_area_linear(self)

(* SampleStats.zm_area_var, by extrapolation type *)
zm_area_var_none(self) == sum(self.zm_vars)

zm_area_var_area(self) ==
    LET site_calc == [i \in 1..self.ni |->
                        RSq(RSub(self.zm_areas[i], RMul(self.a2js[i], self.R)))]
        numerator1 == sum(site_calc)
        term1 == Rat(self.stratum.Ni * self.stratum.Ni)
        term2 == RSub(One, Frac(self.ni, self.stratum.Ni))
        term3 == RDiv(numerator1, Rat(self.ni * (self.ni - 1)))
        term4 == RDiv(RMul(Rat(self.stratum.Ni), sum(self.zm_vars)), Rat(self.ni))
    IN  RAdd(RMul(RMul(term1, term2), term3), term4)

\* variant: the finite-population factor as ni / Ni - 1
zm_area_var_linear_fpc_reversed(self) ==
    LET term1 == RSq(RDiv(self.stratum.LT, self.stratum.LN))
        term2 == RDiv(RMul(RMul(Rat(self.stratum.Ni * self.stratum.Ni),
                                RSub(Frac(self.ni, self.stratum.Ni), One)),
                           self.variance),
                      Rat(self.ni))
        term3 == RMul(Frac(self.stratum.Ni, self.ni), sum(self.zm_vars))
    IN  RMul(term1, RAdd(term2, term3))
zm_area_var_linear(self) ==
    LET term1 == RSq(RDiv(self.stratum.LT, self.stratum.LN))
        term2 == RDiv(RMul(RMul(Rat(self.stratum.Ni * self.stratum.Ni),
                                RSub(One, Frac(self.ni, self.stratum.Ni))),
                           self.variance),
                      Rat(self.ni))
        term3 == RMul(Frac(self.stratum.Ni, self.ni), sum(self.zm_vars))
    IN  RMul(term1, RAdd(term2, term3))

zm_area_var(self) ==
    CASE self.stratum.extrapolation = "none" -> zm_area_var_none(self)
      [] self.stratum.extrapolation = "area" -> zm_area_var_area(self)
      [] self.stratum.extrapolation = "linear" -> zm_area_var_linear(self)

(* SampleStats.cv: se / area, 0.0 on ZeroDivisionError *)
cv(area, se_) ==
    IF RIsZero(area) THEN Sqrt(Zero) ELSE Sqrt(RDiv(RDiv(SqOfSqrt(se_), area), area))

(* SampleStats.__init__, statement by statement; the first statement that  *)
(* raises ends the construction with exc set.                              *)
SampleStats_stats(self) ==
    IF self.exc # "none" THEN self
    ELSE IF self.ni = 0 THEN Fail(self, "ZeroDivisionError")
    ELSE LET s1 == [self EXCEPT !.meanZmArea = meanZmArea(self.sites)]
         IN  IF self.ni = 1 THEN Fail(s1, "ZeroDivisionError")
             ELSE [s1 EXCEPT !.variance = variance(self.sites, s1.meanZmArea)]

SampleStats_ratio(self) ==
    IF self.exc # "none" \/ self.stratum.extrapolation # "area" THEN self
    ELSE LET a2js == _site_attrs_a2j(self.sites)
         IN  IF \E i \in 1..Len(a2js) : a2js[i] = None
             THEN Fail([self EXCEPT !.a2js = a2js], "TypeError")
             ELSE LET s1 == [self EXCEPT !.a2js = a2js, !.Aij = sum(a2js)]
                  IN  IF RIsZero(s1.Aij) THEN Fail(s1, "ZeroDivisionError")
                      ELSE [s1 EXCEPT !.R = RDiv(sum(self.zm_areas), s1.Aij)]

SampleStats_estimates(self) ==
    IF self.exc # "none" THEN self
    ELSE IF self.stratum.extrapolation \notin {"none", "area", "linear"}
    THEN Fail(self, "UnboundLocalError")
    ELSE IF self.stratum.extrapolation # "none" /\ self.stratum.Ni = 0
    THEN Fail(self, "ZeroDivisionError")
    ELSE LET s1 == [self EXCEPT !.zm_area = zm_area(self)]
             s2 == [s1 EXCEPT !.zm_area_var = zm_area_var(s1)]
         IN  IF RLt(s2.zm_area_var, Zero) THEN Fail(s2, "ValueError")
             ELSE LET s3 == [s2 EXCEPT !.se = Sqrt(s2.zm_area_var)]
                  IN  [s3 EXCEPT !.cv = cv(s3.zm_area, s3.se)]

SampleStats(rows, strat, conv) ==
    SampleStats_estimates(SampleStats_ratio(SampleStats_stats(Sample(rows, strat, conv))))

-----------------------------------------------------------------------------
(* Variables a specification does not use keep the value None. *)
IdleSample == sites_list = None /\ samp = None
IdleChange ==
    /\ y1_data = None /\ y1match_data = None /\ y2match_data = None
    /\ y1Samp = None /\ y1mSamp = None /\ y2mSamp = None /\ change = None
IdleTotal ==
    /\ y1samples = None /\ chgstats = None
    /\ y1annualCalc = None /\ zmChangeAll = None
IdleSim ==
    /\ y1 = None /\ y1m = None /\ y2m = None /\ me = None
    /\ me1 = None /\ me1m = None /\ me2m = None
IdleMC == rng = None /\ IdleSim
IdleCI == rel_changes = None /\ mc_ci = None
IdleRun == tables = None /\ iterations = None /\ iteration = None
IdleTrans ==
    /\ trkFlagDict = None /\ tracks = None /\ trkAcc = None /\ trkRows = None
    /\ allTrkStats = None
IdleSite ==
    /\ trans_table = None /\ sample_area = None /\ siteStats = None
    /\ siteStats10x = None
IdleDb ==
    /\ siteList = None /\ sites_no_slpr = None /\ site_table = None
    /\ sites_done = None /\ sites_minus_non_slpr = None
    /\ warning = None
IdleStatsdb == IdleTrans /\ IdleSite /\ IdleDb
IdleLookup ==
    /\ script = None /\ sites_strata = None /\ site_extrap = None
    /\ errors = None /\ strata_calcs = None /\ outFiles = None
IdleObj == mySite = None /\ mySite_args = None
IdleCtl == ctlFile = None /\ flagLocals = None
IdleSurvey == survey_dict = None /\ surveys = None
IdleOther == IdleLookup /\ IdleObj /\ IdleCtl /\ IdleSurvey
IdleLater == IdleCI /\ IdleRun /\ IdleStatsdb /\ IdleOther
IdleEstimates ==
    /\ stratum = None /\ conversion = None
    /\ IdleSample /\ IdleChange /\ IdleTotal /\ IdleMC /\ IdleCI /\ IdleRun

(* Specification SpecSample: one stratum estimate.  The caller groups the  *)
(* site rows of a stratum into a list (group_data_by_extrap, and           *)
(* add_samplearea for rotational flats) and constructs SampleStats.        *)

MaxSites == 5

\* <<zmArea, zmAreaVar, sample area a2j>> of the rows a site table may hold
RowVals == { <<0, 0, 20>>, <<10, 4, 20>>, <<200, 25, 40>> }

\* Ni and the stratum's geometry sum as the GIS layer may report them
StratumCounts == {3, 10}
FlatsAreaSum == 1000
FringeLengthSum == 5000

Strata(conv) ==
    { BaseStratum("core", "none"), BaseStratum("persistent flats", "none") }
    \cup { FlatsStratum("flats", "area", n, Rat(FlatsAreaSum), conv) : n \in StratumCounts }
    \cup { FringeStratum(a, "linear", n, Rat(FringeLengthSum), conv) :
             a \in {"fringe", "wide fringe"}, n \in StratumCounts }

Row(id, v, extrapolation) ==
    IF extrapolation = "area"
    THEN <<id, Rat(v[1]), Rat(v[2]), Rat(v[3])>>
    ELSE <<id, Rat(v[1]), Rat(v[2])>>

InitSample ==
    /\ IdleLater
    /\ pc = "group"
    /\ sites_list = <<>>
    /\ conversion \in {NoConv, "sf2m"}
    /\ stratum \in Strata(conversion)
    /\ samp = None
    /\ IdleChange /\ IdleTotal /\ IdleMC

\* group_data_by_extrap: dat.append(vals)
AppendSite ==
    /\ pc = "group"
    /\ Len(sites_list) < MaxSites
    /\ \E v \in RowVals :
          sites_list' = Append(sites_list,
                               Row(Len(sites_list) + 1, v, stratum.extrapolation))
    /\ UNCHANGED <<laterVars, pc, stratum, conversion, samp, changeVars, totalVars, mcVars>>

\* svmp.SampleStats(data, stratum, unit_convert)
NewSampleStats ==
    /\ pc = "group"
    /\ samp' = SampleStats(sites_list, stratum, conversion)
    /\ pc' = "done"
    /\ UNCHANGED <<laterVars, sites_list, stratum, conversion, changeVars, totalVars, mcVars>>

NextSample == AppendSite \/ NewSampleStats

SpecSample == InitSample /\ [][NextSample]_vars

-----------------------------------------------------------------------------
(* Claims about SampleStats (checked under SpecSample) *)

\* the total of f[1..n], written out independently of sum
RECURSIVE Total(_, _)
Total(f, n) == IF n = 0 THEN Zero ELSE RAdd(f[n], Total(f, n - 1))

SiteAreas == [i \in 1..Len(samp.sites) |-> samp.sites[i].zmArea]
SiteVars == [i \in 1..Len(samp.sites) |-> samp.sites[i].zmAreaVar]
SiteA2js == [i \in 1..Len(samp.sites) |-> samp.sites[i].a2j]
Constructed == pc = "done" /\ samp.exc = "none"

(* C1: with extrapolation "none", every non-empty sample, a one-site       *)
(* sample included, is constructed, zm_area is the sum of the sites'       *)
(* zmArea and zm_area_var the sum of the sites' zmAreaVar.                 *)
C1_NoneIsSumForEveryNonEmptySample ==
    (pc = "done" /\ stratum.extrapolation = "none" /\ Len(sites_list) >= 1)
    => /\ samp.exc = "none"
       /\ samp.zm_area = Total(SiteAreas, Len(sites_list))
       /\ samp.zm_area_var = Total(SiteVars, Len(sites_list))

(* C2: with extrapolation "area", R = sum(zmArea) / sum(a2j) and           *)
(* zm_area = sum(zmArea) * A2 / sum(a2j), whenever the sample has at least *)
(* two sites (so that the statements before them complete).                *)
C2_AreaExtrapolation ==
    (pc = "done" /\ stratum.extrapolation = "area" /\ Len(sites_list) >= 2)
    => LET n == Len(sites_list)
           X == Total(SiteAreas, n)
           A == Total(SiteA2js, n)
       IN  /\ samp.R # None /\ samp.zm_area # None
           /\ ~RIsZero(A)
           /\ RMul(samp.R, A) = X
           /\ RMul(samp.zm_area, A) = RMul(X, stratum.A2)

\* Ni = 10, A2 = 1000, five sites each with zmArea = 10, a2j = 20
C2_Witness ==
    /\ Constructed /\ stratum.extrapolation = "area"
    /\ stratum.Ni = 10 /\ stratum.A2 = Rat(1000)
    /\ Len(samp.sites) = 5
    /\ \A i \in 1..5 : samp.sites[i].zmArea = Rat(10) /\ samp.sites[i].a2j = Rat(20)
    /\ samp.R = Frac(1, 2)
    /\ samp.zm_area = Rat(500)

(* C3: with extrapolation "linear", LN = Ni * 1000 and                     *)
(* zm_area = (LT / LN) * mean(zmArea) * Ni, whenever the sample has at     *)
(* least two sites.                                                        *)
C3_LinearExtrapolation ==
    (pc = "done" /\ stratum.extrapolation = "linear" /\ Len(sites_list) >= 2)
    => LET n == Len(sites_list)
           mean == RDiv(Total(SiteAreas, n), Rat(n))
       IN  /\ samp.zm_area # None
           /\ stratum.LN = Rat(1000 * stratum.Ni)
           /\ RMul(samp.zm_area, stratum.LN)
                = RMul(RMul(stratum.LT, mean), Rat(stratum.Ni))

\* LT = 5000, Ni = 3 (LN = 3000), mean site area 200
C3_Witness ==
    /\ Constructed /\ stratum.extrapolation = "linear"
    /\ stratum.LT = Rat(5000) /\ stratum.Ni = 3 /\ stratum.LN = Rat(3000)
    /\ Len(samp.sites) >= 2
    /\ samp.meanZmArea = Rat(200)
    /\ samp.zm_area = Rat(1000)

-----------------------------------------------------------------------------
(* ChangeStats *)

sum_of_squares(vals) == sum([i \in 1..Len(vals) |-> RSq(vals[i])])

\* zip(xs, ys) stops at the shorter list
Min(a, b) == IF a < b THEN a ELSE b
sum_xy(xs, ys) == sum([i \in 1..Min(Len(xs), Len(ys)) |-> RMul(xs[i], ys[i])])

\* float(xysum) / x2sum, 0.0 on ZeroDivisionError
\* variant: the ratio of the sums instead of the least-squares slope
slope_ratio_of_sums(self) ==
    IF RIsZero(self.x2sum) THEN Zero ELSE RDiv(sum(self.ys), sum(self.xs))
slope(self) ==
    IF RIsZero(self.x2sum) THEN Zero ELSE RDiv(self.xysum, self.x2sum)

(* se_slope, the try block.  For lists of equal length the exact value of  *)
(* the expression is never negative; the floats can make a value that is   *)
(* exactly zero come out as a small negative number.  fp_err is that       *)
(* rounding error; where the exact value is not zero the exact value       *)
(* stands for the float.                                                   *)
slope_var_exact(self) ==
    RDiv(RDiv(RSub(self.y2sum, RDiv(RSq(self.xysum), self.x2sum)),
              Rat(Len(self.xs) - 1)),
         self.x2sum)

slope_var_raw(self, fp_err) ==
    IF RIsZero(self.x2sum) \/ Len(self.xs) - 1 = 0
    THEN Zero
    ELSE IF RIsZero(slope_var_exact(self)) THEN fp_err ELSE slope_var_exact(self)

\* if slope_var < 0 and abs(slope_var) < 0.0001: slope_var = 0.0
\* variant: replaces every negative value by zero
slope_var_guard_any_negative(slope_var) ==
    IF RLt(slope_var, Zero) THEN Zero ELSE slope_var
slope_var_guard(slope_var) ==
    IF RLt(slope_var, Zero) /\ RLt(RNeg(slope_var), Frac(1, 10000))
    THEN Zero ELSE slope_var

proportion_change(self) == RSub(self.m, One)

calc_area_change(self, sy1m, sy2m, sy1) == RMul(self.change_prop, sy1.zm_area)

\* variant: adds the product term instead of subtracting it
area_change_variance_added(self, sy1m, sy2m, sy1) ==
    RAdd(RAdd(RMul(sy1.zm_area_var, RSq(self.change_prop)),
              RMul(SqOfSqrt(self.m_se), RSq(sy1.zm_area))),
         RMul(sy1.zm_area_var, SqOfSqrt(self.m_se)))
\* the variance under the square root of calc_area_change_se
area_change_variance(self, sy1m, sy2m, sy1) ==
    RSub(RAdd(RMul(sy1.zm_area_var, RSq(self.change_prop)),
              RMul(SqOfSqrt(self.m_se), RSq(sy1.zm_area))),
         RMul(sy1.zm_area_var, SqOfSqrt(self.m_se)))

(* ChangeStats.__init__, statement by statement *)
ChangeStats_sums(sample_y1m, sample_y2m) ==
    LET s0 == [exc |-> "none",
               xs |-> sample_y1m.zm_areas, ys |-> sample_y2m.zm_areas,
               x2sum |-> None, y2sum |-> None, xysum |-> None,
               m |-> None, slope_var_try |-> None, slope_var |-> None,
               m_se |-> None, change_prop |-> None,
               area_change |-> None, area_change_se |-> None]
        s1 == [s0 EXCEPT !.x2sum = sum_of_squares(s0.xs),
                         !.y2sum = sum_of_squares(s0.ys),
                         !.xysum = sum_xy(s0.xs, s0.ys)]
    IN  [s1 EXCEPT !.m = slope(s1)]

\* se_slope; slope_var_try is the local slope_var after the try statement,
\* slope_var the same local at the return statement
ChangeStats_se_slope(self, fp_err) ==
    LET s1 == [self EXCEPT !.slope_var_try = slope_var_raw(self, fp_err)]
        s2 == [s1 EXCEPT !.slope_var = slope_var_guard(s1.slope_var_try)]
    IN  IF RLt(s2.slope_var, Zero) THEN Fail(s2, "ValueError")
        ELSE [s2 EXCEPT !.m_se = Sqrt(s2.slope_var)]

ChangeStats_area(self, sy1m, sy2m, sy1) ==
    IF self.exc # "none" THEN self
    ELSE LET s1 == [self EXCEPT !.change_prop = proportion_change(self)]
             s2 == [s1 EXCEPT !.area_change = calc_area_change(s1, sy1m, sy2m, sy1)]
             v  == area_change_variance(s2, sy1m, sy2m, sy1)
         IN  IF RLt(v, Zero) THEN Fail(s2, "ValueError")
             ELSE [s2 EXCEPT !.area_change_se = Sqrt(v)]

ChangeStats(sample_y1m, sample_y2m, sample_y1, fp_err) ==
    ChangeStats_area(
        ChangeStats_se_slope(ChangeStats_sums(sample_y1m, sample_y2m), fp_err),
        sample_y1m, sample_y2m, sample_y1)

-----------------------------------------------------------------------------
(* Specification SpecChange: the area change of one stratum.  The caller   *)
(* queries the site statistics of the sites sampled in both years and of   *)
(* all sites sampled in year 1, builds the three samples and constructs    *)
(* ChangeStats.                                                            *)

MaxMatched == 3
MaxUnmatched == 1

\* <<zmArea, zmAreaVar>> a site may have, in square metres: in year 1 no
\* eelgrass or 10 m2 per site number; in year 2 changed or unchanged
Year1Vals(id) == { <<0, 0>>, <<10 * id, 4>> }
Year2Vals(id) == { <<10 * id + 2 + (id \div 3), 4>>, <<10 * id, 9>> }
SampleArea == 20
ChangeStratumCount == 10
ChangeFlatsAreaSum == 200

\* rounding error of the float evaluation of the slope variance
RoundingErrors == { Zero, Frac(-1, 20000), Frac(-1, 10000) }

(* The tables hold square survey feet when the run converts units         *)
(* ("sf2m") and metres otherwise: a value of v metres**power is stored as  *)
(* v / sf_m**power.                                                        *)
Stored(v, power, conv) ==
    IF conv = NoConv THEN Rat(v)
    ELSE IF power = 1 THEN RDiv(Rat(v), sf_m)
    ELSE IF power = 2 THEN RDiv(Rat(v), RSq(sf_m))
    ELSE RDiv(Rat(v), RSq(RSq(sf_m)))

ChangeStrata(conv) ==
    { BaseStratum("core", "none"),
      FlatsStratum("flats", "area", ChangeStratumCount,
                   Stored(ChangeFlatsAreaSum, 2, conv), conv),
      FringeStratum("fringe", "linear", ChangeStratumCount,
                    Stored(FringeLengthSum, 1, conv), conv) }

DataRow(id, v, extrapolation, conv) ==
    IF extrapolation = "area"
    THEN <<id, Stored(v[1], 2, conv), Stored(v[2], 4, conv), Stored(SampleArea, 2, conv)>>
    ELSE <<id, Stored(v[1], 2, conv), Stored(v[2], 4, conv)>>

InitChange ==
    /\ IdleLater
    /\ pc = "query"
    /\ conversion \in {NoConv, "sf2m"}
    /\ stratum \in ChangeStrata(conversion)
    /\ y1_data = <<>> /\ y1match_data = <<>> /\ y2match_data = <<>>
    /\ y1Samp = None /\ y1mSamp = None /\ y2mSamp = None /\ change = None
    /\ IdleSample /\ IdleTotal /\ IdleMC

\* a site sampled in both years: its year-1 row is in both year-1 lists
QueryMatchedSite ==
    /\ pc = "query"
    /\ Len(y1match_data) < MaxMatched
    /\ Len(y1_data) = Len(y1match_data)
    /\ LET id == Len(y1_data) + 1
       IN  \E v1 \in Year1Vals(id), v2 \in Year2Vals(id) :
              /\ y1_data' = Append(y1_data, DataRow(id, v1, stratum.extrapolation, conversion))
              /\ y1match_data' = Append(y1match_data, DataRow(id, v1, stratum.extrapolation, conversion))
              /\ y2match_data' = Append(y2match_data, DataRow(id, v2, stratum.extrapolation, conversion))
    /\ UNCHANGED <<laterVars, pc, stratum, conversion, sampleVars, totalVars, mcVars, y1Samp, y1mSamp, y2mSamp, change>>

\* a site sampled in year 1 only
QueryYear1Site ==
    /\ pc = "query"
    /\ Len(y1_data) < Len(y1match_data) + MaxUnmatched
    /\ LET id == Len(y1_data) + 1
       IN  \E v1 \in Year1Vals(id) :
              y1_data' = Append(y1_data, DataRow(id, v1, stratum.extrapolation, conversion))
    /\ UNCHANGED <<laterVars, pc, stratum, conversion, sampleVars, totalVars, mcVars, y1match_data, y2match_data,
                   y1Samp, y1mSamp, y2mSamp, change>>

\* core_sample_calc and the like: SampleStats of the three lists; an
\* exception ends the run
SampleCalcs ==
    /\ pc = "query"
    /\ y1mSamp' = SampleStats(y1match_data, stratum, conversion)
    /\ y2mSamp' = IF y1mSamp'.exc = "none"
                  THEN SampleStats(y2match_data, stratum, conversion) ELSE None
    /\ y1Samp' = IF y1mSamp'.exc = "none" /\ y2mSamp'.exc = "none"
                 THEN SampleStats(y1_data, stratum, conversion) ELSE None
    /\ pc' = IF y1Samp' # None /\ y1Samp'.exc = "none" THEN "samples" ELSE "error"
    /\ UNCHANGED <<laterVars, stratum, conversion, sampleVars, totalVars, mcVars, y1_data, y1match_data,
                   y2match_data, change>>

\* the matched sites held in plain Sample objects ("A ChangeStats object
\* has three Samples"), the year-1 sites in a SampleStats
PlainSamples ==
    /\ pc = "query"
    /\ y1mSamp' = Sample(y1match_data, stratum, conversion)
    /\ y2mSamp' = Sample(y2match_data, stratum, conversion)
    /\ y1Samp' = SampleStats(y1_data, stratum, conversion)
    /\ pc' = IF y1Samp'.exc = "none" THEN "samples" ELSE "error"
    /\ UNCHANGED <<laterVars, stratum, conversion, sampleVars, totalVars, mcVars, y1_data, y1match_data,
                   y2match_data, change>>

\* svmp.ChangeStats(Samp_y1m, Samp_y2m, Samp_y1)
NewChangeStats ==
    /\ pc = "samples"
    /\ \E e \in RoundingErrors : change' = ChangeStats(y1mSamp, y2mSamp, y1Samp, e)
    /\ pc' = "done"
    /\ UNCHANGED <<laterVars, stratum, conversion, sampleVars, totalVars, mcVars, y1_data, y1match_data,
                   y2match_data, y1Samp, y1mSamp, y2mSamp>>

NextChange ==
    QueryMatchedSite \/ QueryYear1Site \/ SampleCalcs \/ PlainSamples \/ NewChangeStats

SpecChange == InitChange /\ [][NextChange]_vars

-----------------------------------------------------------------------------
(* Claims about ChangeStats (checked under SpecChange) *)

MatchedX == [i \in 1..Len(y1mSamp.sites) |-> y1mSamp.sites[i].zmArea]
MatchedY == [i \in 1..Len(y2mSamp.sites) |-> y2mSamp.sites[i].zmArea]
MatchedXX == [i \in 1..Len(MatchedX) |-> RMul(MatchedX[i], MatchedX[i])]
MatchedYY == [i \in 1..Len(MatchedY) |-> RMul(MatchedY[i], MatchedY[i])]
MatchedXY == [i \in 1..Len(MatchedX) |-> RMul(MatchedX[i], MatchedY[i])]
Sxx == Total(MatchedXX, Len(MatchedX))
Syy == Total(MatchedYY, Len(MatchedY))
Sxy == Total(MatchedXY, Len(MatchedX))

(* C4: the slope m is sum(x*y) / sum(x^2), 0.0 when sum(x^2) is zero, and  *)
(* change_prop is m - 1.                                                   *)
C4_SlopeThroughOrigin ==
    pc = "done"
    => /\ change.m # None
       /\ RIsZero(Sxx) => change.m = Zero
       /\ ~RIsZero(Sxx) => RMul(change.m, Sxx) = Sxy
       /\ change.exc = "none" => change.change_prop # None
       /\ change.change_prop # None => RAdd(change.change_prop, One) = change.m

\* x = [10, 20, 30], y = [12, 22, 33]
C4_Witness ==
    /\ pc = "done" /\ change.exc = "none"
    /\ MatchedX = <<Rat(10), Rat(20), Rat(30)>>
    /\ MatchedY = <<Rat(12), Rat(22), Rat(33)>>
    /\ change.m = Frac(1550, 1400)
    /\ change.change_prop = Frac(150, 1400)

(* C5: the slope variance is                                               *)
(* [(sum(y^2) - sum(xy)^2 / sum(x^2)) / (m_count - 1)] / sum(x^2), and 0.0 *)
(* when m_count = 1 or sum(x^2) = 0; a raw value strictly between -0.0001  *)
(* and 0 is replaced by 0 and every other raw value is left unchanged; the *)
(* standard error is the square root of the result (which Python refuses   *)
(* for a negative number).                                                 *)
C5_SlopeVariance ==
    pc = "done"
    => LET m_count == Len(MatchedX)
           degenerate == m_count = 1 \/ RIsZero(Sxx)
           raw == change.slope_var_try
           small == RLt(Frac(-1, 10000), raw) /\ RLt(raw, Zero)
       IN  /\ degenerate => raw = Zero
           /\ ~degenerate =>
                LET v == RDiv(RSub(Syy, RDiv(RMul(Sxy, Sxy), Sxx)),
                              RMul(Rat(m_count - 1), Sxx))
                IN  IF RIsZero(v) THEN raw \in RoundingErrors ELSE raw = v
           /\ small => change.slope_var = Zero
           /\ ~small => change.slope_var = raw
           /\ IF RLe(Zero, change.slope_var)
              THEN change.m_se = Sqrt(change.slope_var)
              ELSE change.m_se = None /\ change.exc = "ValueError"

\* a perfect fit whose float slope variance came out as -0.00005
C5_Witness ==
    /\ pc = "done" /\ change.exc = "none"
    /\ Len(MatchedX) >= 2 /\ ~RIsZero(Sxx)
    /\ change.slope_var_try = Frac(-1, 20000)
    /\ change.slope_var = Zero
    /\ change.m_se = Sqrt(Zero)

(* C6: area_change is change_prop times the zm_area of the full year-1     *)
(* sample y1, and the square of area_change_se is                          *)
(* y1.zm_area_var * change_prop^2 + (m_se * y1.zm_area)^2                  *)
(*   - y1.zm_area_var * m_se^2.                                            *)
C6_AreaChange ==
    pc = "done"
    => /\ change.exc = "none" =>
            change.area_change # None /\ change.area_change_se # None
       /\ change.area_change # None =>
            change.area_change = RMul(change.change_prop, y1Samp.zm_area)
       /\ change.area_change_se # None =>
            LET se2 == SqOfSqrt(change.m_se)
                cp2 == RMul(change.change_prop, change.change_prop)
                a2 == RMul(y1Samp.zm_area, y1Samp.zm_area)
            IN  SqOfSqrt(change.area_change_se)
                  = RSub(RAdd(RMul(y1Samp.zm_area_var, cp2), RMul(se2, a2)),
                         RMul(y1Samp.zm_area_var, se2))

\* the year-1 sample has more sites than the matched sample, and the two
\* give different area changes
C6_Witness ==
    /\ pc = "done" /\ change.exc = "none"
    /\ Len(y1Samp.sites) > Len(y1mSamp.sites)
    /\ y1mSamp.zm_area # None
    /\ y1mSamp.zm_area # y1Samp.zm_area
    /\ ~RIsZero(change.change_prop)
    /\ ~RIsZero(SqOfSqrt(change.m_se))
    /\ ~RIsZero(y1Samp.zm_area_var)
    /\ change.area_change # RMul(change.change_prop, y1mSamp.zm_area)

-----------------------------------------------------------------------------
(* AnnualEstimate: its properties over the list of samples *)
AnnualEstimate(samples) ==
    LET areas == [i \in 1..Len(samples) |-> samples[i].zm_area]
        vars_ == [i \in 1..Len(samples) |-> samples[i].zm_area_var]
    IN  [samples |-> samples,
         zm_areas |-> areas, zm_vars |-> vars_,
         zm_area |-> sum(areas), zm_area_var |-> sum(vars_),
         se |-> Sqrt(sum(vars_)),
         cv |-> cv(sum(areas), Sqrt(sum(vars_)))]

(* ChangeStatsTotal *)
_attrs_area_change(objs) == [i \in 1..Len(objs) |-> objs[i].area_change]
_attrs_area_change_se(objs) == [i \in 1..Len(objs) |-> objs[i].area_change_se]
_attrs_change_prop(objs) == [i \in 1..Len(objs) |-> objs[i].change_prop]
_attrs_m_se(objs) == [i \in 1..Len(objs) |-> objs[i].m_se]

total_area_change(self) == sum(self.area_changes)

\* variant: sums the fourth powers of the standard errors
total_area_change_se_squared(self) ==
    Sqrt(sum([i \in 1..Len(self.area_change_ses) |->
                 RSq(SqOfSqrt(self.area_change_ses[i]))]))
total_area_change_se(self) ==
    LET se2s == [i \in 1..Len(self.area_change_ses) |->
                    SqOfSqrt(self.area_change_ses[i])]
    IN  Sqrt(sum(se2s))

\* self.area_change / self.y1area; the division is not guarded
total_proportion_change(self) == RDiv(self.area_change, self.y1area)

(* proportion_change_se.  term1 and term2 are divided by y1area one factor *)
(* at a time, which gives the quotient by y1area ** 2 and y1area ** 4.     *)
total_proportion_change_se(self) ==
    LET n1 == Min(Len(self.y1areas), Len(self.prop_change_ses))
        n2 == Min(Len(self.y1vars), Len(self.prop_changes))
        t1 == sum([i \in 1..n1 |->
                     RMul(SqOfSqrt(self.prop_change_ses[i]), RSq(self.y1areas[i]))])
        t2 == sum([i \in 1..n2 |->
                     RMul(self.y1vars[i],
                          RSq(RSub(RMul(self.prop_changes[i], self.y1area),
                                   self.area_change)))])
        term1 == RDiv(RDiv(t1, self.y1area), self.y1area)
        term2 == RDiv(RDiv(RDiv(RDiv(t2, self.y1area), self.y1area),
                           self.y1area), self.y1area)
    IN  Sqrt(RAdd(term1, term2))

ChangeStatsTotal(chgstats_, y1annual) ==
    LET s0 == [exc |-> "none",
               y1areas |-> y1annual.zm_areas, y1vars |-> y1annual.zm_vars,
               area_changes |-> _attrs_area_change(chgstats_),
               area_change_ses |-> _attrs_area_change_se(chgstats_),
               prop_changes |-> _attrs_change_prop(chgstats_),
               prop_change_ses |-> _attrs_m_se(chgstats_),
               y1area |-> y1annual.zm_area,
               area_change |-> None, area_change_se |-> None,
               change_prop |-> None, change_prop_se |-> None]
        s1 == [s0 EXCEPT !.area_change = total_area_change(s0)]
        s2 == [s1 EXCEPT !.area_change_se = total_area_change_se(s1)]
    IN  IF RIsZero(s2.y1area) THEN Fail(s2, "ZeroDivisionError")
        ELSE LET s3 == [s2 EXCEPT !.change_prop = total_proportion_change(s2)]
             IN  [s3 EXCEPT !.change_prop_se = total_proportion_change_se(s3)]

-----------------------------------------------------------------------------
(* Specification SpecTotal: the area change of all strata combined.  The   *)
(* run calculates the three samples and the ChangeStats of the core,       *)
(* flats, fringe and wide fringe strata in turn, then the AnnualEstimate   *)
(* of year 1 and the ChangeStatsTotal.                                     *)

MaxStrata == 4

\* <<zmArea, zmAreaVar>> in square metres of the matched sites in year 1
\* and year 2 and of the sites sampled in year 1 only
StratumData ==
    { [m1 |-> << <<0, 0>>, <<0, 0>> >>, m2 |-> << <<0, 0>>, <<0, 0>> >>, u1 |-> << >>],
      [m1 |-> << <<0, 0>>, <<0, 0>> >>, m2 |-> << <<1, 1>>, <<2, 1>> >>, u1 |-> << >>],
      [m1 |-> << <<1, 1>>, <<2, 1>> >>, m2 |-> << <<2, 1>>, <<4, 1>> >>, u1 |-> << >>],
      [m1 |-> << <<1, 1>>, <<2, 1>> >>, m2 |-> << <<2, 1>>, <<2, 1>> >>,
       u1 |-> << <<3, 1>> >>] }

\* the strata in the order the run calculates them
StratumOf(k, conv) ==
    CASE k % 4 = 1 -> BaseStratum("core", "none")
      [] k % 4 = 2 -> FlatsStratum("flats", "area", ChangeStratumCount,
                                   Stored(ChangeFlatsAreaSum, 2, conv), conv)
      [] k % 4 = 3 -> FringeStratum("fringe", "linear", ChangeStratumCount,
                                    Stored(FringeLengthSum, 1, conv), conv)
      [] k % 4 = 0 -> FringeStratum("wide fringe", "linear", ChangeStratumCount,
                                    Stored(FringeLengthSum, 1, conv), conv)

DataRows(vals, first, extrapolation, conv) ==
    [i \in 1..Len(vals) |-> DataRow(first + i - 1, vals[i], extrapolation, conv)]

InitTotal ==
    /\ IdleLater
    /\ pc = "strata"
    /\ conversion \in {NoConv, "sf2m"}
    /\ stratum = None
    /\ y1samples = <<>> /\ chgstats = <<>>
    /\ y1annualCalc = None /\ zmChangeAll = None
    /\ IdleSample /\ IdleChange /\ IdleMC

\* core_sample_calc ... wide_fringe_sample_calc and svmp.ChangeStats of the
\* next stratum; an exception ends the run
StratumChange ==
    /\ pc = "strata"
    /\ Len(chgstats) < MaxStrata
    /\ \E d \in StratumData, e \in RoundingErrors :
         LET st == StratumOf(Len(chgstats) + 1, conversion)
             x == st.extrapolation
             rows_y1m == DataRows(d.m1, 1, x, conversion)
             rows_y2m == DataRows(d.m2, 1, x, conversion)
             rows_y1 == rows_y1m \o DataRows(d.u1, Len(d.m1) + 1, x, conversion)
         IN  \E Samp_y1m \in {SampleStats(rows_y1m, st, conversion)},
                Samp_y2m \in {SampleStats(rows_y2m, st, conversion)},
                Samp_y1 \in {SampleStats(rows_y1, st, conversion)} :
               IF Samp_y1m.exc = "none" /\ Samp_y2m.exc = "none" /\ Samp_y1.exc = "none"
               THEN \E Change \in {ChangeStats(Samp_y1m, Samp_y2m, Samp_y1, e)} :
                      IF Change.exc = "none"
                      THEN /\ y1samples' = Append(y1samples, Samp_y1)
                           /\ chgstats' = Append(chgstats, Change)
                           /\ pc' = pc
                      ELSE /\ pc' = "error"
                           /\ UNCHANGED <<y1samples, chgstats>>
               ELSE /\ pc' = "error"
                    /\ UNCHANGED <<y1samples, chgstats>>
    /\ UNCHANGED <<laterVars, stratum, conversion, y1annualCalc, zmChangeAll,
                   sampleVars, changeVars, mcVars>>

\* annual_sample_calc(samples) and svmp.ChangeStatsTotal(chgstats, y1annualCalc)
TotalChange ==
    /\ pc = "strata"
    /\ Len(chgstats) >= 1
    /\ \E annual \in {AnnualEstimate(y1samples)} :
          /\ y1annualCalc' = annual
          /\ zmChangeAll' = ChangeStatsTotal(chgstats, annual)
    /\ pc' = "done"
    /\ UNCHANGED <<laterVars, stratum, conversion, y1samples, chgstats,
                   sampleVars, changeVars, mcVars>>

NextTotal == StratumChange \/ TotalChange

SpecTotal == InitTotal /\ [][NextTotal]_vars
-----------------------------------------------------------------------------
(* Claims about ChangeStatsTotal (checked under SpecTotal) *)

StratumAreaChanges == [i \in 1..Len(chgstats) |-> chgstats[i].area_change]
StratumSquaredSEs ==
    [i \in 1..Len(chgstats) |-> SqOfSqrt(chgstats[i].area_change_se)]
Year1Areas == [i \in 1..Len(y1samples) |-> y1samples[i].zm_area]

(* C7: the soundwide area_change is the sum of the per-stratum area_change *)
(* values and the square of the soundwide area_change_se is the sum of the *)
(* squares of the per-stratum area_change_se values, for any number of     *)
(* strata.                                                                 *)
C7_TotalsAreSums ==
    pc = "done"
    => /\ zmChangeAll.area_change = Total(StratumAreaChanges, Len(chgstats))
       /\ zmChangeAll.area_change_se # None
       /\ SqOfSqrt(zmChangeAll.area_change_se)
            = Total(StratumSquaredSEs, Len(chgstats))

\* four strata, two of them with a change and a standard error
C7_Witness ==
    /\ pc = "done" /\ zmChangeAll.exc = "none"
    /\ Len(chgstats) = 4
    /\ ~RIsZero(zmChangeAll.area_change)
    /\ \E i, j \in 1..Len(chgstats) :
          /\ i # j
          /\ ~RIsZero(chgstats[i].area_change) /\ ~RIsZero(chgstats[j].area_change)
          /\ ~RIsZero(StratumSquaredSEs[i]) /\ ~RIsZero(StratumSquaredSEs[j])
          /\ StratumSquaredSEs[i] # One

(* C8: change_prop is the soundwide area_change divided by the year-1      *)
(* AnnualEstimate zm_area; when that area is zero (every year-1 stratum    *)
(* area is 0) construction still succeeds, with 0.0 for change_prop and    *)
(* for its standard error.                                                 *)
C8_ProportionOfYear1Area ==
    pc = "done"
    => LET y1area == Total(Year1Areas, Len(y1samples))
       IN  /\ zmChangeAll.exc = "none"
           /\ zmChangeAll.change_prop # None
           /\ zmChangeAll.change_prop_se # None
           /\ ~RIsZero(y1area) =>
                RMul(zmChangeAll.change_prop, y1area) = zmChangeAll.area_change
           /\ RIsZero(y1area) =>
                /\ zmChangeAll.change_prop = Zero
                /\ zmChangeAll.change_prop_se = Sqrt(Zero)

\* what the code does where the year-1 area is not zero
C8_ProportionWhereDefined ==
    pc = "done" /\ ~RIsZero(y1annualCalc.zm_area)
    => /\ zmChangeAll.exc = "none"
       /\ RMul(zmChangeAll.change_prop, y1annualCalc.zm_area)
            = zmChangeAll.area_change

\* the four strata without eelgrass in year 1
C8_ZeroYear1Area ==
    /\ pc = "done"
    /\ Len(chgstats) = 4
    /\ \A i \in 1..Len(y1samples) : RIsZero(y1samples[i].zm_area)
    /\ zmChangeAll.exc = "ZeroDivisionError"
-----------------------------------------------------------------------------
(* The random module.  The generator is deterministic once seeded: rng is  *)
(* the cycle of raw values it will return, each standing for the float     *)
(* raw / Cardinality(Raws) in [0, 1).                                      *)
Raws == 0..29

advance(r, k) == [i \in 1..Len(r) |-> r[((i + k - 1) % Len(r)) + 1]]

\* random.choice(seq) is seq[int(random() * len(seq))]
choice(seq, r) == seq[(r[1] * Len(seq)) \div Cardinality(Raws) + 1]

\* the values random.normalvariate(0, 1) returns, from the lowest raw
\* values to the highest
ZTable == <<-2, -1, 0, 1, 2>>
normalvariate(r) == ZTable[(r[1] * Len(ZTable)) \div Cardinality(Raws) + 1]

(* bootstrap(data): len(data) draws of random.choice, each appended as a   *)
(* copy of the row.  The result and the generator after the draws.         *)
bootstrap(data, r) ==
    [bootstrap_data |-> [i \in 1..Len(data) |-> choice(data, advance(r, i - 1))],
     rng |-> advance(r, Len(data))]

\* variant: the rows of data2 in their own order, as many as data1 has
match_sites_by_position(data1, data2) ==
    SubSeq(data2, 1, IF Len(data1) < Len(data2) THEN Len(data1) ELSE Len(data2))

(* match_sites(data1, data2): for each row of data1 a copy of the first    *)
(* row of data2 that holds its site id, none if no row does.  The ids are  *)
(* strings and the other fields numbers, so site.index(site_id) finds the  *)
(* id in the id field or not at all.                                       *)
RECURSIVE match_sites(_, _)
match_sites(data1, data2) ==
    IF data1 = <<>> THEN <<>>
    ELSE LET site_id == data1[Len(data1)][1]
             found == {j \in 1..Len(data2) : data2[j][1] = site_id}
             first == CHOOSE j \in found : \A h \in found : j <= h
         IN  match_sites(SubSeq(data1, 1, Len(data1) - 1), data2)
               \o (IF found = {} THEN <<>> ELSE <<data2[first]>>)

\* x ** 0.5 of a float that is the square of a rational
RECURSIVE isqrt(_, _)
isqrt(n, r) == IF r * r >= n THEN r ELSE isqrt(n, r + 1)
SqrtExact(x) == Frac(isqrt(x[1], 0), isqrt(x[2], 0))

(* measurement_error(data), one step of its loop at a time.  me holds the  *)
(* locals: newdata, the position k of the for loop, and sim_zmArea where   *)
(* a negative value awaits the while loop (None otherwise); grp names the  *)
(* call, and alias tells whether the rows of newdata are the row objects   *)
(* of data itself.                                                         *)
\* variant: newdata = data[:], which copies the list and shares the rows
copy_shallow(data) == [newdata |-> data, alias |-> TRUE]
\* copy.deepcopy(data)
copy_deepcopy(data) == [newdata |-> data, alias |-> FALSE]

measurement_error_call(data, grp) ==
    LET c == copy_deepcopy(data)
    IN  [grp |-> grp, newdata |-> c.newdata, alias |-> c.alias,
         k |-> 1, sim_zmArea |-> None]

\* zmArea + (se * randNum); se and the product are values before they are
\* used
sim_area(site, randNum) ==
    CHOOSE sim_zmArea \in
        { RAdd(zmArea, prod) :
            zmArea \in {site[2]},
            prod \in { RMul(se, Rat(randNum)) : se \in {SqrtExact(site[3])} } } : TRUE

\* site[1] = sim_zmArea
set_area(rows, k, a) == [rows EXCEPT ![k] = [rows[k] EXCEPT ![2] = a]]

\* variant: a simulated area of zero is drawn again too
measurement_error_draw_positive(self, r) ==
    CHOOSE after \in
        { IF RLe(s, Zero) THEN [self EXCEPT !.sim_zmArea = s]
          ELSE [self EXCEPT !.newdata = set_area(self.newdata, self.k, s),
                            !.k = self.k + 1, !.sim_zmArea = None] :
            s \in {sim_area(self.newdata[self.k], normalvariate(r))} } : TRUE

\* the generator draws once; a value that is not negative is stored in the
\* row and the for loop moves on
measurement_error_draw(self, r) ==
    CHOOSE after \in
        { IF RLt(s, Zero) THEN [self EXCEPT !.sim_zmArea = s]
          ELSE [self EXCEPT !.newdata = set_area(self.newdata, self.k, s),
                            !.k = self.k + 1, !.sim_zmArea = None] :
            s \in {sim_area(self.newdata[self.k], normalvariate(r))} } : TRUE

\* the argument list after the step: its rows change when they are the
\* rows of newdata
data_after(data, grp, before, after) ==
    IF before.grp = grp /\ before.alias /\ after.k > before.k
    THEN set_area(data, before.k, after.newdata[before.k][2])
    ELSE data

\* mc_stratum: no bootstrap for the core stratum or strata of fewer than
\* 8 sites
BootstrapMin == 8
\* variant: no bootstrap only for a core stratum of fewer than 8 sites
no_bootstrap_small_core(y1_data_, stratum_) ==
    Len(y1_data_) < BootstrapMin /\ stratum_.analysis = "core"
no_bootstrap(y1_data_, stratum_) ==
    Len(y1_data_) < BootstrapMin \/ stratum_.analysis = "core"

\* an argument list of mc_stratum after a step of measurement_error:
\* y1 = y1_data[:] copies the list and shares its rows, bootstrap and
\* match_sites copy the rows
shared_after(data, grp, before, after) ==
    IF stratum # None /\ no_bootstrap(y1_data, stratum)
    THEN data_after(data, grp, before, after)
    ELSE data
-----------------------------------------------------------------------------
(* Specification SpecMC: one call of mc_stratum.  The generator is seeded  *)
(* when the random module is imported; the seed decides every draw.        *)

MaxMCSites == 9

\* a Lehmer generator stands for the Mersenne Twister
RECURSIVE Lehmer(_, _)
Lehmer(seed, i) == IF i = 0 THEN seed ELSE (3 * Lehmer(seed, i - 1)) % 31
Stream(seed) == [i \in 1..Cardinality(Raws) |-> Lehmer(seed, i) - 1]
Seeds == 1..30

\* <<zmArea, zmAreaVar>> in square metres of site id in year 1 and year 2
MCYear1(id) == <<id % 3, IF id % 3 = 0 THEN 0 ELSE 1>>
MCYear2(id) == <<(id + 1) % 3, 1>>

InitMC ==
    /\ IdleLater
    /\ pc = "mc"
    /\ conversion = "sf2m"
    /\ \E k \in 1..4 : stratum = StratumOf(k, conversion)
    /\ \E n \in (BootstrapMin - 1)..MaxMCSites, u \in 0..MaxUnmatched :
          LET x == stratum.extrapolation
          IN  /\ y1_data = [id \in 1..n |-> DataRow(id, MCYear1(id), x, conversion)]
              /\ y1match_data = SubSeq(y1_data, 1, n - u)
              /\ y2match_data =
                    [id \in 1..(n - u) |-> DataRow(id, MCYear2(id), x, conversion)]
    /\ \E seed \in Seeds : rng = Stream(seed)
    /\ y1Samp = None /\ y1mSamp = None /\ y2mSamp = None /\ change = None
    /\ IdleSim /\ IdleSample /\ IdleTotal

\* mc_stratum up to the first call of measurement_error
Bootstrap ==
    /\ pc = "mc"
    /\ IF no_bootstrap(y1_data, stratum)
       THEN /\ y1' = y1_data
            /\ y1m' = y1match_data
            /\ y2m' = y2match_data
            /\ rng' = rng
       ELSE \E b1 \in {bootstrap(y1_data, rng)} :
            \E b2 \in {bootstrap(y1match_data, b1.rng)} :
               /\ y1' = b1.bootstrap_data
               /\ y1m' = b2.bootstrap_data
               /\ y2m' = match_sites(b2.bootstrap_data, y2match_data)
               /\ rng' = b2.rng
    /\ me' = measurement_error_call(y1', "me1")
    /\ pc' = "me"
    /\ UNCHANGED <<laterVars, stratum, conversion, sampleVars, changeVars, totalVars,
                   me1, me1m, me2m>>

\* for site in newdata: the first draw for the site
SimulateSite ==
    /\ pc = "me"
    /\ me.k <= Len(me.newdata)
    /\ me.sim_zmArea = None
    /\ \E after \in {measurement_error_draw(me, rng)} :
          /\ me' = after
          /\ y1' = data_after(y1, IF me.grp = "data" THEN "data" ELSE "me1", me, after)
          /\ y1m' = data_after(y1m, "me1m", me, after)
          /\ y2m' = data_after(y2m, "me2m", me, after)
          /\ y1_data' = shared_after(y1_data, "me1", me, after)
          /\ y1match_data' = shared_after(y1match_data, "me1m", me, after)
          /\ y2match_data' = shared_after(y2match_data, "me2m", me, after)
    /\ rng' = advance(rng, 1)
    /\ UNCHANGED <<laterVars, pc, stratum, conversion, sampleVars, statVars, totalVars,
                   me1, me1m, me2m>>

\* while sim_zmArea < 0: another draw for the same site
Redraw ==
    /\ pc = "me"
    /\ me.sim_zmArea # None
    /\ \E after \in {measurement_error_draw(me, rng)} :
          /\ me' = after
          /\ y1' = data_after(y1, IF me.grp = "data" THEN "data" ELSE "me1", me, after)
          /\ y1m' = data_after(y1m, "me1m", me, after)
          /\ y2m' = data_after(y2m, "me2m", me, after)
          /\ y1_data' = shared_after(y1_data, "me1", me, after)
          /\ y1match_data' = shared_after(y1match_data, "me1m", me, after)
          /\ y2match_data' = shared_after(y2match_data, "me2m", me, after)
    /\ rng' = advance(rng, 1)
    /\ UNCHANGED <<laterVars, pc, stratum, conversion, sampleVars, statVars, totalVars,
                   me1, me1m, me2m>>

\* return newdata, to mc_stratum, which calls measurement_error with the
\* next list, or to the caller of measurement_error alone
Return ==
    /\ pc = "me"
    /\ me.k > Len(me.newdata)
    /\ CASE me.grp = "me1" ->
              /\ me1' = me.newdata
              /\ me' = measurement_error_call(y1m, "me1m")
              /\ UNCHANGED <<pc, me1m, me2m>>
         [] me.grp = "me1m" ->
              /\ me1m' = me.newdata
              /\ me' = measurement_error_call(y2m, "me2m")
              /\ UNCHANGED <<pc, me1, me2m>>
         [] me.grp = "me2m" ->
              /\ me2m' = me.newdata
              /\ me' = None
              /\ pc' = "stats"
              /\ UNCHANGED <<me1, me1m>>
         [] me.grp = "data" ->
              /\ me1' = me.newdata
              /\ me' = None
              /\ pc' = "done"
              /\ UNCHANGED <<me1m, me2m>>
    /\ UNCHANGED <<laterVars, stratum, conversion, sampleVars, changeVars, totalVars,
                   rng, y1, y1m, y2m>>

\* mc_stratum: SampleStats of the simulated lists and their ChangeStats;
\* an exception ends the run
SimulatedStats ==
    /\ pc = "stats"
    /\ \E s1 \in {SampleStats(me1, stratum, conversion)},
          s1m \in {SampleStats(me1m, stratum, conversion)},
          s2m \in {SampleStats(me2m, stratum, conversion)} :
          /\ y1Samp' = s1 /\ y1mSamp' = s1m /\ y2mSamp' = s2m
          /\ IF s1.exc = "none" /\ s1m.exc = "none" /\ s2m.exc = "none"
             THEN \E e \in RoundingErrors :
                  \E c \in {ChangeStats(s1m, s2m, s1, e)} :
                     /\ change' = c
                     /\ pc' = IF c.exc = "none" THEN "done" ELSE "error"
             ELSE /\ change' = None
                  /\ pc' = "error"
    /\ UNCHANGED <<laterVars, stratum, conversion, sampleVars, dataVars, totalVars, mcVars>>

NextMC == Bootstrap \/ SimulateSite \/ Redraw \/ Return \/ SimulatedStats

SpecMC == InitMC /\ [][NextMC]_vars
-----------------------------------------------------------------------------
(* Specification SpecME: one call of measurement_error(data) on its own.   *)
(* The list data is held in y1 and the returned list in me1.               *)

MaxMERows == 2
StreamLen == 2

\* <<zmArea, zmAreaVar>> of a row; with a2j as a fourth field or without
MERowVals == { <<0, 0>>, <<0, 1>>, <<1, 4>>, <<100, 25>> }
MERow(id, v, wide) ==
    IF wide THEN <<id, Rat(v[1]), Rat(v[2]), Rat(SampleArea)>>
    ELSE <<id, Rat(v[1]), Rat(v[2])>>

\* one raw value for each value of ZTable
ZRaws == { ((i - 1) * Cardinality(Raws)) \div Len(ZTable) : i \in 1..Len(ZTable) }

InitME ==
    /\ IdleLater
    /\ pc = "me"
    /\ stratum = None /\ conversion = None
    /\ \E n \in 0..MaxMERows, wide \in BOOLEAN :
       \E vs \in [1..n -> MERowVals] :
          y1 = [id \in 1..n |-> MERow(id, vs[id], wide)]
    /\ me = measurement_error_call(y1, "data")
    /\ rng \in [1..StreamLen -> ZRaws]
    /\ y1m = None /\ y2m = None
    /\ me1 = None /\ me1m = None /\ me2m = None
    /\ IdleSample /\ IdleChange /\ IdleTotal

NextME == SimulateSite \/ Redraw \/ Return

SpecME == InitME /\ [][NextME]_vars

-----------------------------------------------------------------------------
(* Claims about the Monte Carlo simulation *)

(* C9 (under SpecMC): mc_stratum bootstraps the samples of a stratum if    *)
(* and only if the stratum has at least 8 year-1 sites and is not the core *)
(* stratum: then every list is resampled to the same count, one draw of    *)
(* the generator for each year-1 row, each resampled row a copy of an      *)
(* original row and each year-2 row the match of the year-1 row at its     *)
(* position; otherwise the three original lists go to measurement_error    *)
(* in their order, unchanged, and the generator is not used.               *)
C9_BootstrapIffLargeNonCore ==
    [][ /\ pc = "mc" =>
             LET boot == Len(y1_data) >= 8 /\ stratum.analysis # "core"
             IN  /\ ~boot => /\ y1' = y1_data
                             /\ y1m' = y1match_data
                             /\ y2m' = y2match_data
                             /\ rng' = rng
                 /\ boot =>
                      /\ Len(y1') = Len(y1_data)
                      /\ \A i \in 1..Len(y1') :
                            \E j \in 1..Len(y1_data) : y1'[i] = y1_data[j]
                      /\ Len(y1m') = Len(y1match_data)
                      /\ \A i \in 1..Len(y1m') :
                            \E j \in 1..Len(y1match_data) : y1m'[i] = y1match_data[j]
                      /\ Len(y2m') = Len(y1m')
                      /\ \A i \in 1..Len(y2m') :
                            /\ \E j \in 1..Len(y2match_data) : y2m'[i] = y2match_data[j]
                            /\ y2m'[i][1] = y1m'[i][1]
                      /\ rng' = advance(rng, Len(y1_data) + Len(y1match_data))
                 /\ pc' = "me" /\ me'.grp = "me1" /\ me'.newdata = y1'
        /\ (pc = "me" /\ pc' = "me" /\ me'.grp # me.grp) =>
             /\ me.grp = "me1" => me'.grp = "me1m" /\ me'.newdata = y1m
             /\ me.grp = "me1m" => me'.grp = "me2m" /\ me'.newdata = y2m
      ]_vars

\* a flats stratum of exactly 8 sites, resampled with a site drawn twice
C9_Witness ==
    /\ pc = "me" /\ me.grp = "me1" /\ me.k = 1 /\ me.sim_zmArea = None
    /\ stratum.analysis = "flats"
    /\ Len(y1_data) = 8
    /\ y1 # y1_data
    /\ y1m # y1match_data
    /\ \E i, j \in 1..Len(y1) : i # j /\ y1[i] = y1[j]

\* the list out as a result of measurement_error(data)
SimulatedFrom(data, out) ==
    /\ Len(out) = Len(data)
    /\ \A i \in 1..Len(data) :
          /\ Len(out[i]) = Len(data[i])
          /\ \A f \in 1..Len(data[i]) : f # 2 => out[i][f] = data[i][f]
          /\ ~RLt(out[i][2], Zero)
          /\ \E z \in {ZTable[h] : h \in 1..Len(ZTable)} :
                out[i][2] = RAdd(data[i][2], RMul(SqrtExact(data[i][3]), Rat(z)))

-----------------------------------------------------------------------------
(* conf_int (svmp_93.py) *)

RAbs(x) == IF RLt(x, Zero) THEN RNeg(x) ELSE x

\* variant: the deviations in the order of the recorded values
sorted_not(l) == l
\* sorted(l): ascending, by insertion from the left
RECURSIVE sorted(_)
sorted(l) ==
    IF l = <<>> THEN <<>>
    ELSE LET rest == sorted(SubSeq(l, 1, Len(l) - 1))
             x == l[Len(l)]
             below == Cardinality({j \in 1..Len(rest) : RLe(rest[j], x)})
         IN  SubSeq(rest, 1, below) \o <<x>> \o SubSeq(rest, below + 1, Len(rest))

\* l[i] of a Python list, i counted from 0 and a negative i from the end;
\* None stands for IndexError
item(l, i) ==
    IF 0 <= i /\ i < Len(l) THEN l[i + 1]
    ELSE IF -Len(l) <= i /\ i < 0 THEN l[Len(l) + i + 1]
    ELSE None

\* int(x) of a float: truncation toward zero
int(x) == IF x[1] >= 0 THEN x[1] \div x[2] ELSE -((-x[1]) \div x[2])

conf_int(rel_changes_, pct_ci) ==
    IF Len(rel_changes_) = 0
    THEN [pct_ci |-> pct_ci, exc |-> "ZeroDivisionError", ci |-> None]
    ELSE LET mean_rc == RDiv(sum(rel_changes_), Rat(Len(rel_changes_)))
             conf_intervals == [i \in 1..Len(rel_changes_) |->
                                   RAbs(RSub(mean_rc, rel_changes_[i]))]
             cis_sorted == sorted(conf_intervals)
             idx_ci == int(RMul(Rat(Len(cis_sorted)), pct_ci))
             lo == item(cis_sorted, idx_ci - 1)
             hi == item(cis_sorted, idx_ci)
         IN  IF lo = None \/ hi = None
             THEN [pct_ci |-> pct_ci, exc |-> "IndexError", ci |-> None]
             ELSE [pct_ci |-> pct_ci, exc |-> "none",
                   ci |-> RDiv(RAdd(lo, hi), Rat(2))]
-----------------------------------------------------------------------------
(* Specification SpecCI: conf_int applied to a list of relative changes.   *)

MaxRC == 4

\* relative changes and the pct_ci values of the calls
RCVals == { Frac(-1, 2), Zero, Frac(1, 4), One }
PctCIs == { Frac(1, 10), Frac(1, 2), Frac(19, 20), One }

InitCI ==
    /\ pc = "ci"
    /\ stratum = None /\ conversion = None
    /\ \E n \in 0..MaxRC : rel_changes \in [1..n -> RCVals]
    /\ mc_ci = None
    /\ IdleSample /\ IdleChange /\ IdleTotal /\ IdleMC /\ IdleRun /\ IdleStatsdb /\ IdleOther

\* mc_ci = svmp.conf_int(rel_changes, pct_ci)
ConfInt ==
    /\ pc = "ci"
    /\ \E p \in PctCIs : mc_ci' = conf_int(rel_changes, p)
    /\ pc' = "done"
    /\ UNCHANGED <<otherVars, stratum, conversion, sampleVars, changeVars, totalVars,
                   mcVars, rel_changes, runVars, statsdbVars>>

NextCI == ConfInt

SpecCI == InitCI /\ [][NextCI]_vars
-----------------------------------------------------------------------------
(* Claims about conf_int *)

\* the absolute deviation of the i-th recorded value from the mean
Deviation(i) ==
    RAbs(RSub(rel_changes[i], RDiv(sum(rel_changes), Rat(Len(rel_changes)))))
\* the j-th smallest deviation, j counted from 1
RankedDeviation(j) ==
    LET d == CHOOSE i \in 1..Len(rel_changes) :
               /\ Cardinality({h \in 1..Len(rel_changes) :
                     RLt(Deviation(h), Deviation(i))}) < j
               /\ Cardinality({h \in 1..Len(rel_changes) :
                     RLe(Deviation(h), Deviation(i))}) >= j
    IN  Deviation(d)
RankOfCI == (Len(rel_changes) * mc_ci.pct_ci[1]) \div mc_ci.pct_ci[2]

-----------------------------------------------------------------------------
(* Specification SpecRun: mc_relative_change(iterations).  Each iteration  *)
(* calls mc_stratum for the core, flats, fringe and wide fringe strata in  *)
(* turn, with the site tables and stratum objects of the run, then         *)
(* calculates the totals and records change_prop.  The parameters of       *)
(* mc_stratum are the objects of the tables: what a call does to them is   *)
(* in the tables when the call returns.                                    *)

MaxIterations == 2

\* the number of year-1 sites of each stratum
RunSites == <<3, BootstrapMin, 3, 3>>

\* <<zmArea, zmAreaVar>> of site id of stratum c in year 1 and year 2:
\* measured with error in the strata of MeasuredStrata, exactly elsewhere
MeasuredStrata == {1}
RunYear1(c, id) == IF c \in MeasuredStrata THEN MCYear1(id) ELSE <<1, 0>>
RunYear2(c, id) == IF c \in MeasuredStrata THEN MCYear2(id) ELSE <<2, 0>>

RunTable(c, u, conv) ==
    LET st == StratumOf(c, conv)
        x == st.extrapolation
        n == RunSites[c]
        rows == [id \in 1..n |-> DataRow(id, RunYear1(c, id), x, conv)]
    IN  [y1 |-> rows,
         y1m |-> SubSeq(rows, 1, n - u),
         y2m |-> [id \in 1..(n - u) |-> DataRow(id, RunYear2(c, id), x, conv)],
         stratum |-> st]

InitRun ==
    /\ pc = "run"
    /\ conversion = NoConv
    /\ stratum = None
    /\ \E u \in 0..MaxUnmatched :
          tables = [c \in 1..4 |-> RunTable(c, u, conversion)]
    /\ iterations \in 0..MaxIterations
    /\ iteration = 0
    /\ rel_changes = <<>> /\ mc_ci = None
    /\ \E seed \in Seeds : rng = Stream(seed)
    /\ y1samples = <<>> /\ chgstats = <<>>
    /\ y1annualCalc = None /\ zmChangeAll = None
    /\ IdleSample /\ IdleChange /\ IdleSim /\ IdleStatsdb /\ IdleOther

\* for i in range(iterations): the next call of mc_stratum binds its
\* parameters
CallStratum ==
    /\ pc = "run"
    /\ iteration < iterations
    /\ Len(chgstats) < 4
    /\ LET t == tables[Len(chgstats) + 1]
       IN  /\ y1_data' = t.y1
           /\ y1match_data' = t.y1m
           /\ y2match_data' = t.y2m
           /\ stratum' = t.stratum
    /\ pc' = "mc"
    /\ UNCHANGED <<conversion, sampleVars, statVars, totalVars, mcVars, laterVars>>

\* return (y1Samp,y1mSamp,y2mSamp,change)
ReturnStratum ==
    /\ pc = "done"
    /\ y1samples' = Append(y1samples, y1Samp)
    /\ chgstats' = Append(chgstats, change)
    /\ tables' = [tables EXCEPT ![Len(chgstats) + 1] =
                     [y1 |-> y1_data, y1m |-> y1match_data, y2m |-> y2match_data,
                      stratum |-> stratum]]
    /\ pc' = "run"
    /\ UNCHANGED <<otherVars, stratum, conversion, sampleVars, changeVars, y1annualCalc,
                   zmChangeAll, mcVars, ciVars, iterations, iteration,
                   statsdbVars>>

\* rel_changes.append(rc)
record_rc(rel_changes_, rc) == Append(rel_changes_, rc)

\* annual_sample_calc, svmp.ChangeStatsTotal and rel_changes.append(rc);
\* an exception ends the run
IterationTotal ==
    /\ pc = "run"
    /\ Len(chgstats) = 4
    /\ \E annual \in {AnnualEstimate(y1samples)} :
       \E total \in {ChangeStatsTotal(chgstats, annual)} :
          /\ y1annualCalc' = annual
          /\ zmChangeAll' = total
          /\ IF total.exc = "none"
             THEN /\ rel_changes' = record_rc(rel_changes, total.change_prop)
                  /\ iteration' = iteration + 1
                  /\ y1samples' = <<>> /\ chgstats' = <<>>
                  /\ pc' = pc
             ELSE /\ pc' = "error"
                  /\ UNCHANGED <<rel_changes, iteration, y1samples, chgstats>>
    /\ UNCHANGED <<otherVars, stratum, conversion, sampleVars, changeVars, mcVars, mc_ci,
                   tables, iterations, statsdbVars>>

\* return rel_changes
ReturnRun ==
    /\ pc = "run"
    /\ iteration = iterations
    /\ pc' = "returned"
    /\ UNCHANGED <<stratum, conversion, sampleVars, changeVars, totalVars,
                   mcVars, laterVars>>

NextRun ==
    \/ CallStratum \/ Bootstrap \/ SimulateSite \/ Redraw \/ Return
    \/ SimulatedStats \/ ReturnStratum \/ IterationTotal \/ ReturnRun

SpecRun == InitRun /\ [][NextRun]_vars
-----------------------------------------------------------------------------
(* Claims about mc_relative_change *)

(* C12 (under SpecRun): the iterations of mc_relative_change share nothing *)
(* that changes but the random generator.  No step changes the site tables *)
(* or the stratum objects of the run, and no step of a call of mc_stratum  *)
(* changes the lists or the stratum it was called with; the values         *)
(* recorded are as many as the iterations completed, each iteration        *)
(* appends the change_prop of the totals of its own four strata after the  *)
(* values of the iterations before it, and mc_relative_change returns      *)
(* exactly iterations values.                                              *)
C12_IterationsShareOnlyGenerator ==
    [][ /\ tables' = tables
        /\ pc # "run" => /\ y1_data' = y1_data
                         /\ y1match_data' = y1match_data
                         /\ y2match_data' = y2match_data
                         /\ stratum' = stratum
        /\ Len(rel_changes) = iteration
        /\ Len(rel_changes') = iteration'
        /\ iteration' # iteration =>
             /\ iteration' = iteration + 1
             /\ Len(chgstats) = 4
             /\ rel_changes' = rel_changes \o
                   <<ChangeStatsTotal(chgstats, AnnualEstimate(y1samples)).change_prop>>
        /\ iteration' = iteration => rel_changes' = rel_changes
        /\ pc' = "returned" => Len(rel_changes') = iterations
      ]_vars

\* two iterations returned two values that differ
C12_Witness ==
    /\ pc = "returned"
    /\ iterations = 2
    /\ Len(rel_changes) = 2
    /\ rel_changes[1] # rel_changes[2]
-----------------------------------------------------------------------------
(* Site statistics: calc_siteStats of sitestatsdb.py, Transects and        *)
(* SiteStatistics of svmp_10x.py, and the statistics functions of          *)
(* svmpUtils.py.                                                           *)
(*                                                                         *)
(* The lengths and depths of the transects table are double columns, read  *)
(* as Python floats: their "/" raises ZeroDivisionError for a zero         *)
(* divisor.  svmp_10x takes the lengths of a transect as the sum() of a    *)
(* numpy array, a numpy.float64: its "/" raises nothing for a zero         *)
(* divisor and gives nan for 0/0 and inf for x/0.  NaN and Inf stand for   *)
(* these two values.  A field that holds a root and may hold a plain float *)
(* instead holds PlainFloat(x) for the float.                              *)

nullDep == -9999
trkType4Stats == {"SLPR"}

NaN == <<0, 0>>
Inf == <<1, 0>>
PlainFloat(x) == [float |-> x]

\* a / b of numpy.float64 operands
np_div(a, b) ==
    IF a = NaN \/ b = NaN THEN NaN
    ELSE IF b[1] = 0 THEN (IF a[1] = 0 THEN NaN ELSE Inf)
    ELSE RDiv(a, b)
\* a * b where a may be nan
np_mul(a, b) == IF a = NaN \/ b = NaN THEN NaN ELSE RMul(a, b)

(* ratioEstVar(L_list,l_list,pBarHat,m,LBar).  np tells that the lists     *)
(* hold numpy.float64 values: then the numerator is one as soon as a list  *)
(* has an element, and the division is numpy's.                            *)
ratioEstVar(L_list, l_list, pBarHat, m, LBar, np) ==
    LET numerator ==
            IF pBarHat = NaN /\ Min(Len(l_list), Len(L_list)) > 0 THEN NaN
            ELSE sum([i \in 1..Min(Len(l_list), Len(L_list)) |->
                         RSq(RSub(l_list[i], RMul(pBarHat, L_list[i])))])
        denominator == RMul(Rat((m - 1) * m), RSq(LBar))
    IN  IF np /\ Min(Len(l_list), Len(L_list)) > 0
        THEN [exc |-> "none", estvar |-> np_div(numerator, denominator)]
        ELSE IF RIsZero(denominator)
        THEN [exc |-> "ZeroDivisionError", estvar |-> None]
        ELSE [exc |-> "none", estvar |-> RDiv(numerator, denominator)]

\* stdDev(sample), len(sample) > 1
stdDev(sample) ==
    LET N == Len(sample)
        mean == RDiv(sum(sample), Rat(N))
        sum_sqdif == sum([i \in 1..N |-> RSq(RSub(sample[i], mean))])
    IN  Sqrt(RMul(RDiv(One, Rat(N - 1)), sum_sqdif))
\* variance(stdDev): stdDev ** 2
utils_variance(stdDev_) == SqOfSqrt(stdDev_)
\* stdErr(s,N): s / (float(N) ** 0.5)
stdErr(s, N) == Sqrt(RDiv(SqOfSqrt(s), Rat(N)))
\* ci95(SE): 1.96 * SE
ci95(SE) == Sqrt(RMul(RSq(Frac(49, 25)), SqOfSqrt(SE)))

\* the values of column col in the rows of the table
column(table, col) == [i \in 1..Len(table) |-> table[i][col]]

\* the depths of the transects flagged for use whose depth is not null,
\* in the order of the rows
RECURSIVE depList(_, _, _)
depList(table, depCol, flagCol) ==
    IF table = <<>> THEN <<>>
    ELSE LET row == table[Len(table)]
         IN  depList(SubSeq(table, 1, Len(table) - 1), depCol, flagCol)
               \o (IF row[flagCol] = 1 /\ row[depCol] # Rat(nullDep)
                   THEN <<row[depCol]>> ELSE <<>>)

(* calc_siteStats, depth statistics of one of the two sorted lists: range  *)
(* and mean for at least one value, standard deviation, variance, standard *)
(* error and confidence interval for at least two                          *)
depth_stats(depths) ==
    LET n_dep == Len(depths)
        l == sorted(depths)
        std == stdDev(l)
    IN  [n |-> n_dep,
         max |-> IF n_dep > 0 THEN l[n_dep] ELSE Rat(nullDep),
         min |-> IF n_dep > 0 THEN l[1] ELSE Rat(nullDep),
         mean |-> IF n_dep > 0 THEN RDiv(sum(l), Rat(n_dep)) ELSE Rat(nullDep),
         std |-> IF n_dep > 1 THEN std ELSE PlainFloat(Rat(nullDep)),
         var |-> IF n_dep > 1 THEN utils_variance(std) ELSE Rat(nullDep),
         se |-> IF n_dep > 1 THEN stdErr(std, n_dep) ELSE PlainFloat(Rat(nullDep)),
         ci95 |-> IF n_dep > 1 THEN ci95(stdErr(std, n_dep))
                  ELSE PlainFloat(Rat(nullDep))]

\* variant: the mean of the transects' fractions
estmean_mean_of_fractions(zmlenList, samplenList) ==
    RDiv(sum([i \in 1..Len(zmlenList) |->
                 IF RIsZero(samplenList[i]) THEN Zero
                 ELSE RDiv(zmlenList[i], samplenList[i])]),
         Rat(Len(zmlenList)))
\* estmean_zmfraction = sum_zmlen / sum_samplen, sum_samplen not zero
estmean_zmfraction(zmlenList, samplenList) ==
    RDiv(sum(zmlenList), sum(samplenList))

(* calc_siteStats, the body of its loop for one site: table holds the rows *)
(* of the site in the transects table.  The statement that raises ends the *)
(* calculation: no list of site statistics is returned.                    *)
calc_siteStats(table, area) ==
    LET samplenList == column(table, "samplen")
        zmlenList == column(table, "zmlen")
        n == Len(table)
        raised(e) == [exc |-> e, n |-> n]
    IN  IF n = 0 THEN raised("SystemExit")
        ELSE IF RIsZero(sum(samplenList)) THEN raised("ZeroDivisionError")
        ELSE
        LET estmean == estmean_zmfraction(zmlenList, samplenList)
            mean_translen == RDiv(sum(samplenList), Rat(n))
            estvar == ratioEstVar(samplenList, zmlenList, estmean, n,
                                  mean_translen, FALSE)
        IN  IF estvar.exc # "none" THEN raised(estvar.exc)
            ELSE
            LET est_basalcov == RMul(estmean, area)
                estvar_basalcov == RMul(estvar.estvar, RSq(area))
                se_basalcov == Sqrt(estvar_basalcov)
            IN  IF RIsZero(est_basalcov) THEN raised("ZeroDivisionError")
                ELSE [exc |-> "none", n |-> n,
                      estmean_zmfraction |-> estmean,
                      mean_translen |-> mean_translen,
                      estvar_zmfraction |-> estvar.estvar,
                      sample_area |-> area,
                      est_basalcov |-> est_basalcov,
                      estvar_basalcov |-> estvar_basalcov,
                      se_basalcov |-> se_basalcov,
                      cv_basalcov |-> Sqrt(RDiv(RDiv(estvar_basalcov, est_basalcov),
                                                est_basalcov)),
                      ci95_basalcov |-> ci95(se_basalcov),
                      maxdep |-> depth_stats(depList(table, "zm_maxdep", "maxflag")),
                      mindep |-> depth_stats(depList(table, "zm_mindep", "minflag"))]

(* svmp_10x, Transects.calc_vegfractions: veg_len / trans_len of numpy     *)
(* values; the except clause is for a ZeroDivisionError, which the         *)
(* division does not raise                                                 *)
calc_vegfractions(trans_lengths, veg_lengths) ==
    IF Len(trans_lengths) > 0 /\ Len(veg_lengths) > 0
    THEN [t \in 1..Len(trans_lengths) |-> np_div(veg_lengths[t], trans_lengths[t])]
    ELSE <<>>

\* SiteStatistics.get_depths4stats: the depths of the transects flagged 1
RECURSIVE get_depths4stats(_, _, _)
get_depths4stats(table, depCol, flagCol) ==
    IF table = <<>> THEN <<>>
    ELSE LET row == table[Len(table)]
         IN  get_depths4stats(SubSeq(table, 1, Len(table) - 1), depCol, flagCol)
               \o (IF row[flagCol] = 1 THEN <<row[depCol]>> ELSE <<>>)

(* svmp_10x, SiteStatistics: the outcome of reading each property, exc and *)
(* the value.  sum() of an empty list is the int 0, and 0 / 0 and 0 / 0.0  *)
(* raise ZeroDivisionError.                                                *)
SiteStatistics(table, area) ==
    LET sample_lengths == column(table, "samplen")
        vegetation_lengths == column(table, "zmlen")
        n_area == Len(sample_lengths)
        value(v) == [exc |-> "none", val |-> v]
        raises(e) == [exc |-> e, val |-> None]
        veg_fraction == IF n_area = 0 THEN Zero
                        ELSE np_div(sum(vegetation_lengths), sum(sample_lengths))
        mean_transect_length == IF n_area = 0 THEN Zero
                                ELSE RDiv(sum(sample_lengths), Rat(n_area))
        var_vegfraction == ratioEstVar(sample_lengths, vegetation_lengths,
                                       veg_fraction, n_area, mean_transect_length, TRUE)
        var_vegarea == np_mul(var_vegfraction.estvar, RSq(area))
        mean_se(deps) ==
            [mean |-> IF Len(deps) = 0 THEN raises("ZeroDivisionError")
                      ELSE value(RDiv(sum(deps), Rat(Len(deps)))),
             se |-> IF Len(deps) > 1 THEN value(stdErr(stdDev(deps), Len(deps)))
                    ELSE value(PlainFloat(Rat(nullDep)))]
    IN  [n_area |-> n_area,
         veg_fraction |-> value(veg_fraction),
         mean_transect_length |-> value(mean_transect_length),
         veg_area |-> value(np_mul(veg_fraction, area)),
         var_vegfraction |-> IF var_vegfraction.exc = "none"
                             THEN value(var_vegfraction.estvar)
                             ELSE raises(var_vegfraction.exc),
         var_vegarea |-> IF var_vegfraction.exc = "none" THEN value(var_vegarea)
                         ELSE raises(var_vegfraction.exc),
         se_vegarea |-> IF var_vegfraction.exc = "none" THEN value(Sqrt(var_vegarea))
                        ELSE raises(var_vegfraction.exc),
         veg_maxd |-> mean_se(get_depths4stats(table, "zm_maxdep", "maxflag")),
         veg_mind |-> mean_se(get_depths4stats(table, "zm_mindep", "minflag"))]
-----------------------------------------------------------------------------
(* Specification SpecSite: the site statistics of one site, from the rows  *)
(* of its transects, by calc_siteStats and by svmp_10x.                    *)

MaxTransects == 3

TransectRow(samplen, zmlen, zm_maxdep, zm_mindep, maxflag, minflag) ==
    [samplen |-> Rat(samplen), zmlen |-> Rat(zmlen),
     zm_maxdep |-> Rat(zm_maxdep), zm_mindep |-> Rat(zm_mindep),
     maxflag |-> maxflag, minflag |-> minflag]

\* transects without good video, without vegetation, with vegetation and
\* both, one or none of the depth flags
TransectRows ==
    { TransectRow(0, 0, nullDep, nullDep, 1, 1),
      TransectRow(10, 0, nullDep, nullDep, 1, 1),
      TransectRow(10, 5, -8, -2, 1, 1),
      TransectRow(20, 20, -6, -1, 1, 0),
      TransectRow(10, 5, -4, -3, 0, 0) }

InitSite ==
    /\ pc = "site"
    /\ \E n \in 0..MaxTransects : trans_table \in [1..n -> TransectRows]
    /\ sample_area = Rat(100)
    /\ siteStats = None /\ siteStats10x = None
    /\ IdleEstimates /\ IdleTrans /\ IdleDb /\ IdleOther

\* siteStats_veg = calc_siteStats(...), for the site
CalcSiteStats ==
    /\ pc = "site"
    /\ siteStats = None
    /\ siteStats' = calc_siteStats(trans_table, sample_area)
    /\ UNCHANGED <<otherVars, pc, stratum, conversion, sampleVars, changeVars, totalVars,
                   mcVars, ciVars, runVars, transVars, dbVars,
                   trans_table, sample_area, siteStats10x>>

\* mytransects.calc_vegfractions() and the properties of
\* svmp.SiteStatistics(mytransects)
SiteStatistics10x ==
    /\ pc = "site"
    /\ siteStats10x = None
    /\ siteStats10x' =
          [veg_fractions |-> calc_vegfractions(column(trans_table, "samplen"),
                                               column(trans_table, "zmlen")),
           stats |-> SiteStatistics(trans_table, sample_area)]
    /\ UNCHANGED <<otherVars, pc, stratum, conversion, sampleVars, changeVars, totalVars,
                   mcVars, ciVars, runVars, transVars, dbVars,
                   trans_table, sample_area, siteStats>>

NextSite == CalcSiteStats \/ SiteStatistics10x

SpecSite == InitSite /\ [][NextSite]_vars
-----------------------------------------------------------------------------
(* Claims about the site statistics (checked under SpecSite) *)

SampleLengths == [i \in 1..Len(trans_table) |-> trans_table[i].samplen]
VegLengths == [i \in 1..Len(trans_table) |-> trans_table[i].zmlen]
SumSampleLengths == Total(SampleLengths, Len(trans_table))
SumVegLengths == Total(VegLengths, Len(trans_table))
PooledFraction == RDiv(SumVegLengths, SumSampleLengths)
MeanOfFractions ==
    RDiv(Total([i \in 1..Len(trans_table) |->
                   IF RIsZero(SampleLengths[i]) THEN Zero
                   ELSE RDiv(VegLengths[i], SampleLengths[i])], Len(trans_table)),
         Rat(Len(trans_table)))

(* C13 (under SpecSite): in the site statistics calc_siteStats returns,    *)
(* and in those of SiteStatistics for a site with a sample length, the     *)
(* vegetation fraction is the sum of the transects' vegetation lengths     *)
(* divided by the sum of their sample lengths, the mean transect length is *)
(* the sum of the sample lengths divided by the number of transects, the   *)
(* vegetated area is the fraction times the area of the sample polygon and *)
(* the variance of the area is the variance of the fraction times the      *)
(* square of that area.                                                    *)
C13_PooledFractionAndArea ==
    /\ (siteStats # None /\ siteStats.exc = "none") =>
          /\ siteStats.estmean_zmfraction = PooledFraction
          /\ siteStats.mean_translen =
                RDiv(SumSampleLengths, Rat(Len(trans_table)))
          /\ siteStats.est_basalcov = RMul(PooledFraction, sample_area)
          /\ siteStats.estvar_basalcov =
                RMul(RMul(siteStats.estvar_zmfraction, sample_area), sample_area)
    /\ (siteStats10x # None /\ ~RIsZero(SumSampleLengths)) =>
          LET s == siteStats10x.stats
          IN  /\ s.veg_fraction = [exc |-> "none", val |-> PooledFraction]
              /\ s.mean_transect_length.val =
                    RDiv(SumSampleLengths, Rat(Len(trans_table)))
              /\ s.veg_area.val = RMul(PooledFraction, sample_area)
              /\ s.var_vegarea.exc = "none"
              /\ s.var_vegfraction.val # NaN =>
                    s.var_vegarea.val =
                       RMul(RMul(s.var_vegfraction.val, sample_area), sample_area)

\* both calculations done for transects whose pooled fraction is not the
\* mean of their fractions, with a variance of the area that is not zero
C13_Witness ==
    /\ siteStats # None /\ siteStats.exc = "none"
    /\ siteStats10x # None
    /\ PooledFraction # MeanOfFractions
    /\ ~RIsZero(siteStats.estvar_basalcov)
    /\ siteStats10x.stats.var_vegarea.val = siteStats.estvar_basalcov

\* the depth statistics calc_siteStats gives a list without values
SentinelDepthStats ==
    [n |-> 0, max |-> Rat(nullDep), min |-> Rat(nullDep), mean |-> Rat(nullDep),
     std |-> PlainFloat(Rat(nullDep)), var |-> Rat(nullDep),
     se |-> PlainFloat(Rat(nullDep)), ci95 |-> PlainFloat(Rat(nullDep))]

(* C14 (under SpecSite): for a site without transect rows, or whose        *)
(* transects have a total vegetation length of zero, the site statistics   *)
(* are calculated without an exception: calc_siteStats returns a record    *)
(* with vegetation fraction, vegetated area, variance and standard error   *)
(* of the area all 0 and the sentinel -9999 in every depth statistic, and  *)
(* the properties of SiteStatistics give 0 for the fraction, the area, its *)
(* variance and its standard error and the sentinel for the depth means    *)
(* and standard errors.                                                    *)
C14_VegetationAbsentRecord ==
    /\ (siteStats # None /\ (Len(trans_table) = 0 \/ RIsZero(SumVegLengths))) =>
          /\ siteStats.exc = "none"
          /\ siteStats.estmean_zmfraction = Zero
          /\ siteStats.est_basalcov = Zero
          /\ siteStats.estvar_basalcov = Zero
          /\ siteStats.se_basalcov = Sqrt(Zero)
          /\ siteStats.maxdep = SentinelDepthStats
          /\ siteStats.mindep = SentinelDepthStats
    /\ (siteStats10x # None /\ (Len(trans_table) = 0 \/ RIsZero(SumVegLengths))) =>
          LET s == siteStats10x.stats
          IN  /\ s.veg_fraction = [exc |-> "none", val |-> Zero]
              /\ s.veg_area = [exc |-> "none", val |-> Zero]
              /\ s.var_vegarea = [exc |-> "none", val |-> Zero]
              /\ s.se_vegarea = [exc |-> "none", val |-> Sqrt(Zero)]
              /\ s.veg_maxd.mean = [exc |-> "none", val |-> Rat(nullDep)]
              /\ s.veg_mind.mean = [exc |-> "none", val |-> Rat(nullDep)]
              /\ s.veg_maxd.se = [exc |-> "none", val |-> PlainFloat(Rat(nullDep))]
              /\ s.veg_mind.se = [exc |-> "none", val |-> PlainFloat(Rat(nullDep))]

\* the case of calc_siteStats alone, for a site with two or more transects
\* with a sample length and without vegetation
C14_ZeroVegetationSites ==
    (/\ siteStats # None
     /\ Len(trans_table) >= 2
     /\ RIsZero(SumVegLengths) /\ ~RIsZero(SumSampleLengths)) =>
        siteStats.exc = "none"

(* C15 (under SpecSite): the callers of ratioEstVar guard its division by  *)
(* (m-1)*m*LBar^2, so that the site statistics of a site with exactly one  *)
(* transect, or with a mean sample length of zero, are calculated without  *)
(* a ZeroDivisionError, by calc_siteStats and by                           *)
(* SiteStatistics.var_vegfraction.                                         *)
C15_RatioEstVarGuarded ==
    /\ (siteStats # None /\ (Len(trans_table) = 1 \/ RIsZero(SumSampleLengths))) =>
          siteStats.exc # "ZeroDivisionError"
    /\ (siteStats10x # None /\ (Len(trans_table) = 1 \/ RIsZero(SumSampleLengths))) =>
          siteStats10x.stats.var_vegfraction.exc # "ZeroDivisionError"

\* the case of calc_siteStats alone, for a site with one transect that has
\* a sample length and vegetation
C15_SingleTransectSites ==
    (/\ siteStats # None
     /\ Len(trans_table) = 1
     /\ ~RIsZero(SumVegLengths) /\ ~RIsZero(SumSampleLengths)) =>
        siteStats.exc = "none"

(* C16 (under SpecSite): the vegetation fraction calc_vegfractions gives   *)
(* each transect is its vegetation length divided by its sample length     *)
(* when the sample length is greater than zero, and 0 when the sample      *)
(* length is zero.                                                         *)
C16_TransectVegFraction ==
    siteStats10x # None =>
        /\ Len(siteStats10x.veg_fractions) = Len(trans_table)
        /\ \A t \in 1..Len(trans_table) :
              siteStats10x.veg_fractions[t] =
                 IF RIsZero(SampleLengths[t]) THEN Zero
                 ELSE RDiv(VegLengths[t], SampleLengths[t])

\* the depths in column depCol of the transects of the site flagged in
\* flagCol whose depth is not the sentinel
QualifyingDepths(depCol, flagCol) ==
    LET qualifies(row) == row[flagCol] = 1 /\ row[depCol] # Rat(nullDep)
    IN  column(SelectSeq(trans_table, qualifies), depCol)

\* the statistics stats are those of the list l of depths
DepthAggregates(stats, l) ==
    /\ stats.n = Len(l)
    /\ Len(l) = 0 =>
          /\ stats.mean = Rat(nullDep)
          /\ stats.max = Rat(nullDep)
          /\ stats.min = Rat(nullDep)
    /\ Len(l) < 2 =>
          /\ stats.std = PlainFloat(Rat(nullDep))
          /\ stats.var = Rat(nullDep)
          /\ stats.se = PlainFloat(Rat(nullDep))
          /\ stats.ci95 = PlainFloat(Rat(nullDep))
    /\ Len(l) >= 2 =>
          /\ stats.std = stdDev(l)
          /\ stats.var = utils_variance(stdDev(l))
          /\ stats.se = stdErr(stdDev(l), Len(l))
          /\ stats.ci95 = ci95(stdErr(stdDev(l), Len(l)))

(* C19 (under SpecSite): calc_siteStats raises no exception and gives, for *)
(* the list of maximum depths and for the list of minimum depths of the    *)
(* transects flagged for use with a depth that is not the sentinel: the    *)
(* sentinel -9999 as mean, deepest and shallowest value of an empty list,  *)
(* the sentinel as standard deviation, variance, standard error and 95%    *)
(* confidence interval of a list of fewer than 2 values, and the values of *)
(* stdDev, variance, stdErr and ci95 for a list of 2 values or more.       *)
C19_DepthAggregatesNoException ==
    siteStats # None =>
        /\ siteStats.exc = "none"
        /\ DepthAggregates(siteStats.maxdep, QualifyingDepths("zm_maxdep", "maxflag"))
        /\ DepthAggregates(siteStats.mindep, QualifyingDepths("zm_mindep", "minflag"))

\* the depth statistics of the sites whose area statistics raise nothing
C19_DepthAggregatesWhereReturned ==
    (siteStats # None /\ siteStats.exc = "none") =>
        /\ DepthAggregates(siteStats.maxdep, QualifyingDepths("zm_maxdep", "maxflag"))
        /\ DepthAggregates(siteStats.mindep, QualifyingDepths("zm_mindep", "minflag"))

\* a site with two transects or more, vegetation and a list of depths
\* without values, for which the statistics are returned
C19_EmptyListReturned ==
    /\ siteStats # None /\ siteStats.exc = "none"
    /\ QualifyingDepths("zm_maxdep", "maxflag") = <<>>
\* a site with vegetation whose list of maximum depths has two values
C19_TwoValuesReturned ==
    /\ siteStats # None /\ siteStats.exc = "none"
    /\ Len(QualifyingDepths("zm_maxdep", "maxflag")) >= 2
-----------------------------------------------------------------------------
(* sitestatsdb.py, calc_transStats: the statistics of the transects of one *)
(* site.  A row of the line feature class is a record of the values the    *)
(* loop reads from it: segLen (feat.length), dep, vidQual and zmPresence.  *)
(* Lengths and depths are whole numbers here; depths lie between init_min  *)
(* and init_max, as depths in feet at the sites of the survey do.  The     *)
(* identifiers and dates of trkStats, which are formatted strings, are     *)
(* left out.                                                               *)

init_max == 10000
init_min == -10000

\* samplen = 0, zmlen = 0 and the initial maximum and minimum depths
trans_init ==
    [samplen |-> 0, zmlen |-> 0,
     trk_maxdep |-> init_max, zm_maxdep |-> init_max,
     zm_mindep |-> init_min, trk_mindep |-> init_min]

\* the depth extremes after a segment of depth dep
dep_max(dep, cur) == IF dep < cur THEN dep ELSE cur
dep_min(dep, cur) == IF dep > cur THEN dep ELSE cur

\* variant: the vegetation of a segment counted whatever its video quality
trans_step_any_video(acc, row) ==
    LET a1 == IF row.vidQual # 0
              THEN [acc EXCEPT !.samplen = @ + row.segLen] ELSE acc
    IN  IF row.zmPresence # 0
        THEN [a1 EXCEPT !.zmlen = @ + row.segLen] ELSE a1
\* variant: the null depth compared as any other depth
trans_step_null_depth(acc, row) ==
    IF row.vidQual # 0
    THEN LET a1 == [acc EXCEPT !.samplen = @ + row.segLen,
                               !.trk_maxdep = dep_max(row.dep, @),
                               !.trk_mindep = dep_min(row.dep, @)]
         IN  IF row.zmPresence # 0
             THEN [a1 EXCEPT !.zmlen = @ + row.segLen,
                             !.zm_maxdep = dep_max(row.dep, @),
                             !.zm_mindep = dep_min(row.dep, @)]
             ELSE a1
    ELSE acc
\* the body of the loop "while row:" for one row
trans_step(acc, row) ==
    IF row.vidQual # 0
    THEN LET a1 == [acc EXCEPT !.samplen = @ + row.segLen]
             a2 == IF row.dep # nullDep
                   THEN [a1 EXCEPT !.trk_maxdep = dep_max(row.dep, @),
                                   !.trk_mindep = dep_min(row.dep, @)]
                   ELSE a1
         IN  IF row.zmPresence # 0
             THEN LET a3 == [a2 EXCEPT !.zmlen = @ + row.segLen]
                  IN  IF row.dep # nullDep
                      THEN [a3 EXCEPT !.zm_maxdep = dep_max(row.dep, @),
                                      !.zm_mindep = dep_min(row.dep, @)]
                      ELSE a3
             ELSE a2
    ELSE acc

\* the statements after the loop: the list trkStats of the transect
trans_finish(acc, trk, flags) ==
    [trk |-> trk,
     samplen |-> acc.samplen,
     zmlen |-> acc.zmlen,
     zm_fraction |-> IF acc.samplen > 0 THEN Frac(acc.zmlen, acc.samplen) ELSE Zero,
     trk_maxdep |-> IF acc.trk_maxdep = init_max THEN nullDep ELSE acc.trk_maxdep,
     zm_maxdep |-> IF acc.zm_maxdep = init_max THEN nullDep ELSE acc.zm_maxdep,
     zm_mindep |-> IF acc.zm_mindep = init_min THEN nullDep ELSE acc.zm_mindep,
     trk_mindep |-> IF acc.trk_mindep = init_min THEN nullDep ELSE acc.trk_mindep,
     maxflag |-> flags[1],
     minflag |-> flags[2]]

\* variant: every track of the control file used for statistics
stats_tracks_all(flagDict) == [t \in 1..Len(flagDict) |-> t]
\* tracks: the tracks of the control file with a type used for statistics
stats_tracks(flagDict) ==
    SelectSeq([t \in 1..Len(flagDict) |-> t],
              LAMBDA t : flagDict[t][3] \in trkType4Stats)
-----------------------------------------------------------------------------
(* Specification SpecTrans: calc_transStats for one site, a row of the     *)
(* search cursor at a time.  trkRows lists the rows read, each with its    *)
(* track, in the order they were read.                                     *)

MaxTracks == 3
MaxSegs == 2

\* [maxFlag, minFlag, trkType] of track t in the control file
ControlFlags(t) ==
    IF t % 3 = 1 THEN <<1, 1, "SLPR">>
    ELSE IF t % 3 = 2 THEN <<1, 0, "ZIGZAG">>
    ELSE <<0, 1, "SLPR">>
SegVals ==
    [segLen : {1, 2}, dep : {nullDep, -3, 2}, vidQual : {0, 1}, zmPresence : {0, 1}]

InitTrans ==
    /\ pc = "trans"
    /\ \E n \in 0..MaxTracks : trkFlagDict = [t \in 1..n |-> ControlFlags(t)]
    /\ tracks = stats_tracks(trkFlagDict)
    /\ trkAcc = None
    /\ trkRows = <<>>
    /\ allTrkStats = <<>>
    /\ IdleEstimates /\ IdleSite /\ IdleDb /\ IdleOther

\* rows.next() gives the first row of the transect: the values are
\* initialized and the loop runs for this row
BeginTransect ==
    /\ pc = "trans" /\ tracks # <<>> /\ trkAcc = None
    /\ Len(trkRows) < MaxSegs
    /\ \E row \in SegVals :
          /\ trkAcc' = trans_step(trans_init, row)
          /\ trkRows' = Append(trkRows, [trk |-> Head(tracks), row |-> row])
    /\ UNCHANGED <<otherVars, pc, stratum, conversion, sampleVars, changeVars, totalVars,
                   mcVars, ciVars, runVars, siteVars, dbVars,
                   trkFlagDict, tracks, allTrkStats>>

\* rows.next() gives one more row of the transect
ProcessSegment ==
    /\ pc = "trans" /\ tracks # <<>> /\ trkAcc # None
    /\ Len(trkRows) < MaxSegs
    /\ \E row \in SegVals :
          /\ trkAcc' = trans_step(trkAcc, row)
          /\ trkRows' = Append(trkRows, [trk |-> Head(tracks), row |-> row])
    /\ UNCHANGED <<otherVars, pc, stratum, conversion, sampleVars, changeVars, totalVars,
                   mcVars, ciVars, runVars, siteVars, dbVars,
                   trkFlagDict, tracks, allTrkStats>>

\* rows.next() gives no more row: trkStats is appended to allTrkStats
EndTransect ==
    /\ pc = "trans" /\ tracks # <<>> /\ trkAcc # None
    /\ allTrkStats' = Append(allTrkStats,
                             trans_finish(trkAcc, Head(tracks),
                                          trkFlagDict[Head(tracks)]))
    /\ tracks' = Tail(tracks)
    /\ trkAcc' = None
    /\ UNCHANGED <<otherVars, pc, stratum, conversion, sampleVars, changeVars, totalVars,
                   mcVars, ciVars, runVars, siteVars, dbVars,
                   trkFlagDict, trkRows>>

\* the query of the transect returns no row: e.call(errtext)
NoTransectData ==
    /\ pc = "trans" /\ tracks # <<>> /\ trkAcc = None
    /\ pc' = "error"
    /\ UNCHANGED <<otherVars, stratum, conversion, sampleVars, changeVars, totalVars,
                   mcVars, ciVars, runVars, siteVars, dbVars, transVars>>

\* return allTrkStats
ReturnTransStats ==
    /\ pc = "trans" /\ tracks = <<>>
    /\ pc' = "returned"
    /\ UNCHANGED <<otherVars, stratum, conversion, sampleVars, changeVars, totalVars,
                   mcVars, ciVars, runVars, siteVars, dbVars, transVars>>

NextTrans ==
    \/ BeginTransect
    \/ ProcessSegment
    \/ EndTransect
    \/ NoTransectData
    \/ ReturnTransStats

SpecTrans == InitTrans /\ [][NextTrans]_vars
-----------------------------------------------------------------------------
(* Claims about the transect statistics (checked under SpecTrans) *)

\* the rows read for track t, in the order they were read
RowsOf(t) ==
    LET of_track(r) == r.trk = t
    IN  column(SelectSeq(trkRows, of_track), "row")
GoodVideo(rs) ==
    LET good(r) == r.vidQual # 0
    IN  SelectSeq(rs, good)
GoodVideoVeg(rs) ==
    LET veg(r) == r.vidQual # 0 /\ r.zmPresence # 0
    IN  SelectSeq(rs, veg)
RECURSIVE SegLenSum(_)
SegLenSum(rs) ==
    IF rs = <<>> THEN 0 ELSE rs[1].segLen + SegLenSum(Tail(rs))

\* the lengths in st are those of the rows rs
LengthsOfRows(st, rs) ==
    /\ st.samplen = SegLenSum(GoodVideo(rs))
    /\ st.zmlen = SegLenSum(GoodVideoVeg(rs))
    /\ 0 <= st.zmlen /\ st.zmlen <= st.samplen

(* C17 (under SpecTrans): after every segment calc_transStats has          *)
(* processed, and in the statistics of every transect it has finished, the *)
(* sample length is the sum of the lengths of the segments of the transect *)
(* with good video quality, the vegetation length is the sum of the        *)
(* lengths of its segments with good video quality and vegetation, and     *)
(* 0 <= vegetation length <= sample length.                                *)
C17_SegmentAccumulation ==
    /\ trkAcc # None => LengthsOfRows(trkAcc, RowsOf(Head(tracks)))
    /\ \A i \in 1..Len(allTrkStats) :
          LengthsOfRows(allTrkStats[i], RowsOf(allTrkStats[i].trk))

\* the statistics returned hold a transect of two segments with vegetation,
\* the first with bad video: its lengths are the length of the second
C17_Witness ==
    /\ pc = "returned"
    /\ \E i \in 1..Len(allTrkStats) :
          LET rs == RowsOf(allTrkStats[i].trk)
          IN  /\ Len(rs) = 2
              /\ rs[1].vidQual = 0 /\ rs[1].zmPresence = 1
              /\ rs[2].vidQual = 1 /\ rs[2].zmPresence = 1
              /\ allTrkStats[i].samplen = rs[2].segLen
              /\ allTrkStats[i].zmlen = rs[2].segLen

\* the fraction of a finished transect: vegetation length over sample
\* length, and 0 for a sample length of 0
C16_TransStatsFraction ==
    \A i \in 1..Len(allTrkStats) :
        LET rs == RowsOf(allTrkStats[i].trk)
        IN  allTrkStats[i].zm_fraction =
               IF SegLenSum(GoodVideo(rs)) > 0
               THEN Frac(SegLenSum(GoodVideoVeg(rs)), SegLenSum(GoodVideo(rs)))
               ELSE Zero
\* a finished transect without a segment of good video
C16_ZeroSampleLength ==
    \E i \in 1..Len(allTrkStats) :
        allTrkStats[i].samplen = 0 /\ allTrkStats[i].zm_fraction = Zero

\* the depths of the rows rs that are not the sentinel
NumericDepths(rs) == {rs[i].dep : i \in 1..Len(rs)} \ {nullDep}
\* the smallest and the largest depth of S, the sentinel for no depth
Deepest(S) ==
    IF S = {} THEN nullDep ELSE CHOOSE x \in S : \A y \in S : x <= y
Shallowest(S) ==
    IF S = {} THEN nullDep ELSE CHOOSE x \in S : \A y \in S : x >= y

(* C18 (under SpecTrans): in the statistics of every transect              *)
(* calc_transStats has finished, the track maximum depth is the smallest   *)
(* and the track minimum depth the largest depth of the segments with good *)
(* video quality whose depth is not the sentinel -9999, the vegetation     *)
(* maximum and minimum depths are the same over the segments with good     *)
(* video quality, vegetation and a depth that is not the sentinel, and     *)
(* each of the four is the sentinel exactly when no segment qualifies for  *)
(* it.                                                                     *)
C18_DepthExtremes ==
    \A i \in 1..Len(allTrkStats) :
        LET st == allTrkStats[i]
            trk_deps == NumericDepths(GoodVideo(RowsOf(st.trk)))
            zm_deps == NumericDepths(GoodVideoVeg(RowsOf(st.trk)))
        IN  /\ st.trk_maxdep = Deepest(trk_deps)
            /\ st.trk_mindep = Shallowest(trk_deps)
            /\ st.zm_maxdep = Deepest(zm_deps)
            /\ st.zm_mindep = Shallowest(zm_deps)
            /\ (st.trk_maxdep = nullDep) <=> (trk_deps = {})
            /\ (st.trk_mindep = nullDep) <=> (trk_deps = {})
            /\ (st.zm_maxdep = nullDep) <=> (zm_deps = {})
            /\ (st.zm_mindep = nullDep) <=> (zm_deps = {})

\* the statistics returned hold a transect of two segments with good video,
\* one with vegetation and the sentinel as depth, one without vegetation
\* and with a depth: the track depths are that depth, the vegetation depths
\* the sentinel
C18_Witness ==
    /\ pc = "returned"
    /\ \E i \in 1..Len(allTrkStats) :
          LET st == allTrkStats[i]
              rs == RowsOf(st.trk)
          IN  /\ Len(rs) = 2
              /\ rs[1].vidQual = 1 /\ rs[1].zmPresence = 1 /\ rs[1].dep = nullDep
              /\ rs[2].vidQual = 1 /\ rs[2].zmPresence = 0 /\ rs[2].dep # nullDep
              /\ st.trk_maxdep = rs[2].dep /\ st.trk_mindep = rs[2].dep
              /\ st.zm_maxdep = nullDep /\ st.zm_mindep = nullDep
\* the statistics returned hold a transect whose track maximum and minimum
\* depths differ
C18_TwoDepths ==
    /\ pc = "returned"
    /\ \E i \in 1..Len(allTrkStats) :
          allTrkStats[i].trk_maxdep < allTrkStats[i].trk_mindep
-----------------------------------------------------------------------------
(* sitestatsdb.py, the run over the sites of siteList_VegCode: the         *)
(* transect statistics of each site into the transects table, then the     *)
(* site statistics of the sites that have transect statistics into the     *)
(* sites table, then the warning.  An element of siteList is a site with   *)
(* what the run reads for it: trkFlagDict, the flags and track types       *)
(* get_Flags reads from its control file, and lines, the rows of its       *)
(* clipped line feature class, by track.                                   *)

\* the loop "while row:" over the rows of a transect
RECURSIVE trans_loop(_, _)
trans_loop(acc, seg_rows) ==
    IF seg_rows = <<>> THEN acc
    ELSE trans_loop(trans_step(acc, Head(seg_rows)), Tail(seg_rows))

\* calc_transStats(site,lnFC,trkFlagDict,selected_veg_code): a transect of
\* tracks without rows ends the run by e.call
calc_transStats(flagDict, lines) ==
    LET trks == stats_tracks(flagDict)
    IN  IF \E i \in 1..Len(trks) : lines[trks[i]] = <<>>
        THEN [exc |-> "SystemExit", allTrkStats |-> <<>>]
        ELSE [exc |-> "none",
              allTrkStats |->
                 [i \in 1..Len(trks) |->
                     trans_finish(trans_loop(trans_init, lines[trks[i]]),
                                  trks[i], flagDict[trks[i]])]]

\* insert_stats(trans_table_fullpath,transStats,transCols): the rows of
\* the transects table for the statistics of a site
transect_rows(site, transStats) ==
    [i \in 1..Len(transStats) |->
        [site |-> site, trk |-> transStats[i].trk,
         samplen |-> Rat(transStats[i].samplen),
         zmlen |-> Rat(transStats[i].zmlen),
         zm_maxdep |-> Rat(transStats[i].zm_maxdep),
         zm_mindep |-> Rat(transStats[i].zm_mindep),
         maxflag |-> transStats[i].maxflag,
         minflag |-> transStats[i].minflag]]

\* the rows of the transects table the search cursor gives for a site
site_rows(table, site) ==
    LET of_site(r) == r.site = site
    IN  SelectSeq(table, of_site)

-----------------------------------------------------------------------------
(* Specification SpecStatsRun: one run of sitestatsdb.py.  siteStats lists *)
(* the calls of calc_siteStats' loop body made so far, each with its site  *)
(* and its outcome.                                                        *)

MaxRunSites == 3

veg_seg == [segLen |-> 2, dep |-> -3, vidQual |-> 1, zmPresence |-> 1]
bare_seg == [segLen |-> 1, dep |-> 2, vidQual |-> 1, zmPresence |-> 0]
SiteCases ==
    { \* two transects for statistics and one of another type
      [trkFlagDict |-> <<ControlFlags(1), ControlFlags(2), ControlFlags(3)>>,
       lines |-> <<(<<veg_seg, bare_seg>>), <<veg_seg>>, <<veg_seg>>>>],
      \* no transect for statistics
      [trkFlagDict |-> <<ControlFlags(2)>>, lines |-> << <<veg_seg>> >>],
      [trkFlagDict |-> <<ControlFlags(2), ControlFlags(2)>>,
       lines |-> <<(<<veg_seg>>), <<bare_seg, veg_seg>>>>],
      \* one transect for statistics
      [trkFlagDict |-> <<ControlFlags(2), ControlFlags(1)>>,
       lines |-> <<(<<veg_seg>>), <<veg_seg, bare_seg>>>>],
      \* a transect for statistics outside of the sample polygon
      [trkFlagDict |-> <<ControlFlags(1), ControlFlags(3)>>,
       lines |-> <<(<<veg_seg>>), <<>>>>] }

InitStatsRun ==
    /\ pc = "sites"
    /\ \E n \in 0..MaxRunSites :
          \E cases \in [1..n -> SiteCases] :
             siteList = [i \in 1..n |->
                            [site |-> i,
                             trkFlagDict |-> cases[i].trkFlagDict,
                             lines |-> cases[i].lines]]
    /\ sites_done = 0
    /\ sites_minus_non_slpr = {}
    /\ sites_no_slpr = <<>>
    /\ trans_table = <<>>
    /\ sample_area = Rat(100)
    /\ siteStats = <<>> /\ siteStats10x = None
    /\ site_table = <<>>
    /\ warning = <<>>
    /\ IdleEstimates /\ IdleTrans /\ IdleOther

\* the body of "for site in siteList_VegCode:" for the next site
TransectStatistics ==
    /\ pc = "sites" /\ sites_done < Len(siteList)
    /\ LET s == siteList[sites_done + 1]
           transStats == calc_transStats(s.trkFlagDict, s.lines)
       IN  IF transStats.exc # "none"
           THEN /\ pc' = "exit"
                /\ UNCHANGED <<sites_done, trans_table, sites_no_slpr>>
           ELSE /\ sites_done' = sites_done + 1
                /\ pc' = pc
                /\ IF transStats.allTrkStats # <<>>
                   THEN /\ trans_table' =
                             trans_table \o transect_rows(s.site, transStats.allTrkStats)
                        /\ UNCHANGED sites_no_slpr
                   ELSE /\ sites_no_slpr' = Append(sites_no_slpr, s.site)
                        /\ UNCHANGED trans_table
    /\ UNCHANGED <<otherVars, stratum, conversion, sampleVars, changeVars, totalVars,
                   mcVars, ciVars, runVars, transVars,
                   sample_area, siteStats, siteStats10x,
                   siteList, sites_minus_non_slpr, site_table, warning>>

\* "if siteList_VegCode:" and the sites handed to calc_siteStats
BeginSiteStatistics ==
    /\ pc = "sites" /\ sites_done = Len(siteList)
    /\ IF siteList # <<>>
       THEN /\ sites_minus_non_slpr' =
                 {siteList[i].site : i \in 1..Len(siteList)}
                    \ {sites_no_slpr[i] : i \in 1..Len(sites_no_slpr)}
            /\ pc' = "site_stats"
       ELSE /\ pc' = "warn"
            /\ UNCHANGED sites_minus_non_slpr
    /\ UNCHANGED <<otherVars, stratum, conversion, sampleVars, changeVars, totalVars,
                   mcVars, ciVars, runVars, transVars, siteVars,
                   siteList, sites_done, sites_no_slpr, site_table, warning>>

\* calc_siteStats, "for site in sites:" for one more site of the set; an
\* exception ends the run
SiteStatisticsOfSite ==
    /\ pc = "site_stats"
    /\ \E s \in sites_minus_non_slpr \ {siteStats[i].site : i \in 1..Len(siteStats)} :
          \E out \in {calc_siteStats(site_rows(trans_table, s), sample_area)} :
             /\ siteStats' = Append(siteStats, [site |-> s, stats |-> out])
             /\ pc' = IF out.exc = "none" THEN pc ELSE "exit"
    /\ UNCHANGED <<otherVars, stratum, conversion, sampleVars, changeVars, totalVars,
                   mcVars, ciVars, runVars, transVars, dbVars,
                   trans_table, sample_area, siteStats10x>>

\* calc_siteStats returns allSiteStats, inserted into the sites table
InsertSiteStatistics ==
    /\ pc = "site_stats"
    /\ sites_minus_non_slpr = {siteStats[i].site : i \in 1..Len(siteStats)}
    /\ site_table' = siteStats
    /\ pc' = "warn"
    /\ UNCHANGED <<otherVars, stratum, conversion, sampleVars, changeVars, totalVars,
                   mcVars, ciVars, runVars, transVars, siteVars,
                   siteList, sites_done, sites_minus_non_slpr, sites_no_slpr,
                   warning>>

\* "if sites_no_slpr:": the warning with the sites of sites_no_slpr
FinalWarning ==
    /\ pc = "warn"
    /\ warning' = sites_no_slpr
    /\ pc' = "done"
    /\ UNCHANGED <<otherVars, stratum, conversion, sampleVars, changeVars, totalVars,
                   mcVars, ciVars, runVars, transVars, siteVars,
                   siteList, sites_done, sites_minus_non_slpr, sites_no_slpr,
                   site_table>>

NextStatsRun ==
    \/ TransectStatistics
    \/ BeginSiteStatistics
    \/ SiteStatisticsOfSite
    \/ InsertSiteStatistics
    \/ FinalWarning

SpecStatsRun == InitStatsRun /\ [][NextStatsRun]_vars
-----------------------------------------------------------------------------
(* Claims about the run (checked under SpecStatsRun) *)

\* the control file of the site gives track trk a type used for statistics
AllowedTrack(site, trk) ==
    siteList[site].trkFlagDict[trk][3] \in trkType4Stats
HasAllowedTrack(site) ==
    \E trk \in 1..Len(siteList[site].trkFlagDict) : AllowedTrack(site, trk)
InList(x, l) == \E i \in 1..Len(l) : l[i] = x

(* C20 (under SpecStatsRun): every row of the transects table is of a      *)
(* transect whose track type in the control file of its site is in         *)
(* trkType4Stats; a site the loop has done that has no such transect has   *)
(* no row in the transects table and is in sites_no_slpr; calc_siteStats   *)
(* is not called for it and the sites table has no row for it; and the     *)
(* final warning of the run names it.                                      *)
C20_TrackTypeAllowList ==
    /\ \A i \in 1..Len(trans_table) :
          AllowedTrack(trans_table[i].site, trans_table[i].trk)
    /\ \A s \in 1..sites_done :
          ~HasAllowedTrack(s) =>
             /\ site_rows(trans_table, s) = <<>>
             /\ InList(s, sites_no_slpr)
    /\ \A s \in 1..Len(siteList) :
          ~HasAllowedTrack(s) =>
             /\ \A i \in 1..Len(siteStats) : siteStats[i].site # s
             /\ \A i \in 1..Len(site_table) : site_table[i].site # s
             /\ pc = "done" => InList(s, warning)

\* a run that has given its final warning for a site without a transect
\* for statistics, with rows in the transects table and in the sites
\* table for a site that also has a transect of another type
C20_Witness ==
    /\ pc = "done"
    /\ \E s \in 1..Len(siteList) : ~HasAllowedTrack(s) /\ InList(s, warning)
    /\ \E s \in 1..Len(siteList) :
          /\ \E trk \in 1..Len(siteList[s].trkFlagDict) : ~AllowedTrack(s, trk)
          /\ site_rows(trans_table, s) # <<>>
          /\ InList(s, [i \in 1..Len(site_table) |-> site_table[i].site])
-----------------------------------------------------------------------------
(* sw_area_estimates_93.py and sw_area_change_93.py, the run from the      *)
(* lookup of the strata of the sites to the output files.  The statistics  *)
(* of the strata are those of SpecSample, SpecChange and SpecTotal; here   *)
(* strata_calcs only tells for which strata they are calculated.           *)

core_extrap == <<"core", "none">>
pfl_extrap == <<"persistent flats", "none">>
fl_extrap == <<"flats", "area">>
fr_extrap == <<"fringe", "linear">>
frw_extrap == <<"wide fringe", "linear">>

sw_Stratum4AreaCalcs ==
    (<<"frw", "core">> :> core_extrap) @@ (<<"fr", "core">> :> core_extrap)
    @@ (<<"fl", "core">> :> core_extrap) @@ (<<"fl", "persistent">> :> pfl_extrap)
    @@ (<<"fl", "rotational">> :> fl_extrap) @@ (<<"fr", "rotational">> :> fr_extrap)
    @@ (<<"frw", "rotational">> :> frw_extrap)
sw_Stratum4AreaChgCalcs ==
    (<<"frw", "core">> :> core_extrap) @@ (<<"fr", "core">> :> core_extrap)
    @@ (<<"fl", "core">> :> core_extrap) @@ (<<"fl", "persistent">> :> core_extrap)
    @@ (<<"fl", "rotational">> :> fl_extrap) @@ (<<"fr", "rotational">> :> fr_extrap)
    @@ (<<"frw", "rotational">> :> frw_extrap)

\* the lookup table of the script and the strata it groups the sites by
lookup_dict(script_) ==
    IF script_ = "sw_area_estimates_93" THEN sw_Stratum4AreaCalcs
    ELSE sw_Stratum4AreaChgCalcs
grouped_extraps(script_) ==
    IF script_ = "sw_area_estimates_93"
    THEN <<core_extrap, pfl_extrap, fl_extrap, fr_extrap, frw_extrap>>
    ELSE <<core_extrap, fl_extrap, fr_extrap, frw_extrap>>

\* variant: a default stratum for a pair that is not a key
subscript_default(dict, key) ==
    IF key \in DOMAIN dict THEN [exc |-> "none", value |-> dict[key]]
    ELSE [exc |-> "none", value |-> core_extrap]
\* lookup_dict[tuple(data)]
subscript(dict, key) ==
    IF key \in DOMAIN dict THEN [exc |-> "none", value |-> dict[key]]
    ELSE [exc |-> "KeyError", value |-> None]

\* SvmpToolsError.call(message) of the object made by SvmpToolsError(gp):
\* the messages return_errors gives to gp.AddError.  cleanup then exits.
unknown_error == "An unknown error occured"
e_call(message) == <<IF message # "" THEN message ELSE unknown_error>>
-----------------------------------------------------------------------------
(* Specification SpecLookup: one run of one of the two scripts.            *)
(* sites_strata holds, for each call of the lookup, the pairs (geomorph    *)
(* stratum, sampling stratum) of the sites in the order of the loop;       *)
(* site_extrap holds the values looked up in each call started.            *)

MaxExtraSites == 2

\* sites of every stratum the scripts group by
BaseSites ==
    << <<"fl", "core">>, <<"fl", "persistent">>, <<"fl", "rotational">>,
       <<"fr", "rotational">>, <<"frw", "rotational">> >>
ExtraStrata == { <<"fr", "core">>, <<"fr", "persistent">>, <<"frw", "subtidal">> }
SitesStrata ==
    UNION { { base \o extra : extra \in [1..n -> ExtraStrata] } :
               n \in 0..MaxExtraSites, base \in {<<>>, BaseSites} }

InitLookup ==
    /\ pc = "main"
    /\ \/ /\ script = "sw_area_estimates_93"
          /\ \E l \in SitesStrata : sites_strata = <<l>>
       \/ /\ script = "sw_area_change_93"
          /\ \E l2yr \in SitesStrata, ly1 \in SitesStrata : sites_strata = <<l2yr, ly1>>
    /\ site_extrap = <<>>
    /\ errors = <<>>
    /\ strata_calcs = <<>>
    /\ outFiles = {}
    /\ IdleEstimates /\ IdleStatsdb /\ IdleObj /\ IdleCtl /\ IdleSurvey

\* the next lookup of the run starts: site_extrap = {}
StrataLookup ==
    /\ pc = "main" /\ Len(site_extrap) < Len(sites_strata)
    /\ site_extrap' = Append(site_extrap, <<>>)
    /\ pc' = "strata_lookup"
    /\ UNCHANGED <<stratum, conversion, sampleVars, changeVars, totalVars, mcVars,
                   ciVars, runVars, statsdbVars, objVars, ctlVars, surveyVars,
                   script, sites_strata, errors, strata_calcs, outFiles>>

\* site_extrap[siteid] = lookup_dict[tuple(data)] for the next site
LookupSite ==
    /\ pc = "strata_lookup"
    /\ LET c == Len(site_extrap)
           i == Len(site_extrap[c]) + 1
       IN  /\ i <= Len(sites_strata[c])
           /\ LET looked_up == subscript(lookup_dict(script), sites_strata[c][i])
              IN  IF looked_up.exc = "none"
                  THEN /\ site_extrap' =
                             [site_extrap EXCEPT ![c] = Append(@, looked_up.value)]
                       /\ pc' = pc
                  ELSE /\ pc' = "except"
                       /\ UNCHANGED site_extrap
    /\ UNCHANGED <<stratum, conversion, sampleVars, changeVars, totalVars, mcVars,
                   ciVars, runVars, statsdbVars, objVars, ctlVars, surveyVars,
                   script, sites_strata, errors, strata_calcs, outFiles>>

\* invert_dict and group_data_by_extrap for each stratum: a stratum
\* without a site is a KeyError of extrap_site_dict[extrap]
GroupData ==
    /\ pc = "strata_lookup"
    /\ LET c == Len(site_extrap)
       IN  /\ Len(site_extrap[c]) = Len(sites_strata[c])
           /\ pc' = IF \A g \in 1..Len(grouped_extraps(script)) :
                          \E i \in 1..Len(site_extrap[c]) :
                             site_extrap[c][i] = grouped_extraps(script)[g]
                    THEN "main" ELSE "except"
    /\ UNCHANGED <<stratum, conversion, sampleVars, changeVars, totalVars, mcVars,
                   ciVars, runVars, statsdbVars, objVars, ctlVars, surveyVars,
                   lookupVars>>

\* the calculations of the strata, after the last lookup
Calculations ==
    /\ pc = "main" /\ Len(site_extrap) = Len(sites_strata)
    /\ strata_calcs' = grouped_extraps(script)
    /\ pc' = "write"
    /\ UNCHANGED <<stratum, conversion, sampleVars, changeVars, totalVars, mcVars,
                   ciVars, runVars, statsdbVars, objVars, ctlVars, surveyVars,
                   script, sites_strata, site_extrap, errors, outFiles>>

\* the two output files are written
WriteOutput ==
    /\ pc = "write"
    /\ outFiles' = {"outFileStratum", "outFileAll"}
    /\ pc' = "done"
    /\ UNCHANGED <<stratum, conversion, sampleVars, changeVars, totalVars, mcVars,
                   ciVars, runVars, statsdbVars, objVars, ctlVars, surveyVars,
                   script, sites_strata, site_extrap, errors, strata_calcs>>

\* "except: e.call()" of the script: the error is reported and the run
\* exits
ExceptCall ==
    /\ pc = "except"
    /\ errors' = errors \o e_call("")
    /\ pc' = "exit"
    /\ UNCHANGED <<stratum, conversion, sampleVars, changeVars, totalVars, mcVars,
                   ciVars, runVars, statsdbVars, objVars, ctlVars, surveyVars,
                   script, sites_strata, site_extrap, strata_calcs, outFiles>>

NextLookup ==
    \/ StrataLookup
    \/ LookupSite
    \/ GroupData
    \/ Calculations
    \/ WriteOutput
    \/ ExceptCall

SpecLookup == InitLookup /\ [][NextLookup]_vars
-----------------------------------------------------------------------------
(* Claims about the lookup of the strata (checked under SpecLookup) *)

\* a site of lookup c has a pair that is not a key of the lookup table
MissingKey(c) ==
    \E i \in 1..Len(sites_strata[c]) :
        sites_strata[c][i] \notin DOMAIN lookup_dict(script)

(* C21 (under SpecLookup): when the pair (geomorph stratum, sampling       *)
(* stratum) of a site of the run is not a key of the lookup table of the   *)
(* script, no statistics of a stratum are calculated and no output file is *)
(* written in any state of the run, the run does not reach its end, and it *)
(* exits only after SvmpToolsError.call has reported an error.             *)
C21_LookupFailureFatal ==
    (\E c \in 1..Len(sites_strata) : MissingKey(c)) =>
        /\ strata_calcs = <<>>
        /\ outFiles = {}
        /\ pc \notin {"write", "done"}
        /\ pc = "exit" => errors # <<>>

\* a run of sw_area_change_93 whose first lookup and grouping are done and
\* whose second lookup meets a pair that is not a key: the run has exited
\* with the error reported
C21_Witness ==
    /\ pc = "exit" /\ script = "sw_area_change_93"
    /\ Len(site_extrap) = 2
    /\ ~MissingKey(1) /\ MissingKey(2)
    /\ Len(site_extrap[2]) < Len(sites_strata[2])
    /\ errors = <<unknown_error>>
\* a run without such a pair that has written its output files
C21_RunCompleted ==
    /\ pc = "done" /\ outFiles # {} /\ errors = <<>>
-----------------------------------------------------------------------------
(* Specification SpecObj: a Site object made from its arguments, and calls *)
(* of its method convert_units.  mySite_args holds the arguments; one call *)
(* of the method after the construction is followed.                       *)

ObjAreas == {0, 10, 200}
ObjVariances == {0, 4, 25}
ObjA2js == {None, Rat(0), Rat(20)}

InitObj ==
    /\ pc = "new_site"
    /\ \E a \in ObjAreas, v \in ObjVariances, a2j \in ObjA2js,
          conv \in {NoConv, "sf2m"} :
          mySite_args = [id |-> 1, zmArea |-> Rat(a), zmAreaVar |-> Rat(v),
                         a2j |-> a2j, conversion |-> conv]
    /\ mySite = None
    /\ IdleEstimates /\ IdleStatsdb /\ IdleLookup /\ IdleCtl /\ IdleSurvey

\* mySite = Site(*args,**kwargs)
NewSite ==
    /\ pc = "new_site"
    /\ pc' = "site_obj"
    /\ mySite' = Site(mySite_args.id, mySite_args.zmArea, mySite_args.zmAreaVar,
                      mySite_args.a2j, mySite_args.conversion)
    /\ UNCHANGED <<stratum, conversion, sampleVars, changeVars, totalVars, mcVars,
                   ciVars, runVars, statsdbVars, lookupVars, ctlVars, surveyVars,
                   mySite_args>>

\* mySite.convert_units("sf2m")
ConvertUnits ==
    /\ pc = "site_obj"
    /\ pc' = "converted"
    /\ mySite' = convert_units(mySite, "sf2m")
    /\ UNCHANGED <<stratum, conversion, sampleVars, changeVars, totalVars, mcVars,
                   ciVars, runVars, statsdbVars, lookupVars, ctlVars, surveyVars,
                   mySite_args>>

NextObj == NewSite \/ ConvertUnits

SpecObj == InitObj /\ [][NextObj]_vars
-----------------------------------------------------------------------------
(* Claims about the conversion of units *)

\* the Site object as its construction leaves it
SiteAsMade ==
    Site(mySite_args.id, mySite_args.zmArea, mySite_args.zmAreaVar,
         mySite_args.a2j, mySite_args.conversion)

(* C22 (under SpecObj): a Site converted to meters at its construction     *)
(* keeps the zmArea, zmAreaVar and a2j of its construction through every   *)
(* later call of convert_units('sf2m'), and its area and variance are not  *)
(* negative.                                                               *)
C22_ConversionIdempotent ==
    (pc \in {"site_obj", "converted"} /\ mySite_args.conversion = "sf2m") =>
        /\ mySite.zmArea = SiteAsMade.zmArea
        /\ mySite.zmAreaVar = SiteAsMade.zmAreaVar
        /\ mySite.a2j = SiteAsMade.a2j
        /\ RLe(Zero, mySite.zmArea) /\ RLe(Zero, mySite.zmAreaVar)

\* the values of a Site are never negative, and the construction converts
\* them once
C22_ConvertedOnceAtConstruction ==
    pc = "site_obj" =>
        /\ RLe(Zero, mySite.zmArea) /\ RLe(Zero, mySite.zmAreaVar)
        /\ mySite.zmArea =
              IF mySite_args.conversion = "sf2m"
              THEN RMul(mySite_args.zmArea, RSq(sf_m)) ELSE mySite_args.zmArea
        /\ mySite.zmAreaVar =
              IF mySite_args.conversion = "sf2m"
              THEN RMul(mySite_args.zmAreaVar, RSq(RSq(sf_m)))
              ELSE mySite_args.zmAreaVar
-----------------------------------------------------------------------------
(* Claims about the matched samples *)

\* the lists a and b hold the same site ids, index by index
AlignedRows(a, b) ==
    /\ Len(a) = Len(b)
    /\ \A i \in 1..Len(a) : a[i][1] = b[i][1]

\* every id of the matched data occurs exactly once in both years
MatchedOnce ==
    /\ \A i, j \in 1..Len(y1match_data) :
          y1match_data[i][1] = y1match_data[j][1] => i = j
    /\ \A i \in 1..Len(y1match_data) :
          Cardinality({j \in 1..Len(y2match_data) :
                          y2match_data[j][1] = y1match_data[i][1]}) = 1
    /\ \A j \in 1..Len(y2match_data) :
          Cardinality({i \in 1..Len(y1match_data) :
                          y1match_data[i][1] = y2match_data[j][1]}) = 1

(* C23 (under SpecMC): with every matched site id once in both years'      *)
(* matched data, the matched lists of an iteration of mc_stratum,          *)
(* bootstrapped or not, have the same length and the same site id at each  *)
(* index: the lists handed to measurement_error, the lists it returns and  *)
(* the samples given to ChangeStats; and each row match_sites returned is  *)
(* the year-2 row of the id of the year-1 row at its index.                *)
C23_MatchedPairsAligned ==
    MatchedOnce =>
        /\ pc # "mc" =>
              /\ AlignedRows(y1m, y2m)
              /\ ~no_bootstrap(y1_data, stratum) =>
                    \A i \in 1..Len(y1m) :
                       \E j \in 1..Len(y2match_data) :
                          /\ y2match_data[j][1] = y1m[i][1]
                          /\ y2m[i] = y2match_data[j]
        /\ pc \in {"stats", "done", "error"} => AlignedRows(me1m, me2m)
        /\ pc = "done" =>
              /\ y1mSamp.ni = y2mSamp.ni
              /\ y1mSamp.site_ids = y2mSamp.site_ids

\* a bootstrapped iteration whose year-1 matched list is not in the order
\* of the year-2 matched data
C23_Witness ==
    /\ pc = "done"
    /\ MatchedOnce
    /\ ~no_bootstrap(y1_data, stratum)
    /\ \E i \in 1..Len(y1m) : y1m[i][1] # y2match_data[i][1]
    /\ AlignedRows(y1m, y2m)
    /\ y1mSamp.site_ids = y2mSamp.site_ids

\* an iteration without bootstrap
C23_NoBootstrapAligned ==
    /\ pc = "done"
    /\ no_bootstrap(y1_data, stratum)
    /\ Len(y1m) > 0
    /\ AlignedRows(me1m, me2m)
-----------------------------------------------------------------------------
(* Specification SpecBoot: a SampleStats object and calls of its method    *)
(* bootstrap, inherited from Sample.                                       *)

MaxBootSites == 3

\* <<zmArea, zmAreaVar, a2j>> of site id
BootVals(id) == <<10 * id, id, 20>>

(* Sample.bootstrap(): ni draws of random.choice from self.sites; the new  *)
(* list replaces self.sites, and site_ids, zm_areas and zm_vars are read   *)
(* from it again.  The object and the generator after the draws.           *)
Sample_bootstrap(self, r) ==
    LET bootstrap_sites ==
            [i \in 1..self.ni |-> choice(self.sites, advance(r, i - 1))]
    IN  [self |-> [self EXCEPT
                     !.sites = bootstrap_sites,
                     !.site_ids = _site_attrs_id(bootstrap_sites),
                     !.zm_areas = _site_attrs_zmArea(bootstrap_sites),
                     !.zm_vars = _site_attrs_zmAreaVar(bootstrap_sites)],
         rng |-> advance(r, self.ni)]

InitBoot ==
    /\ IdleLater
    /\ pc = "group"
    /\ conversion \in {NoConv, "sf2m"}
    /\ stratum \in Strata(conversion)
    /\ \E n \in 2..MaxBootSites :
          sites_list = [id \in 1..n |-> Row(id, BootVals(id), stratum.extrapolation)]
    /\ samp = None
    /\ \E seed \in Seeds : rng = Stream(seed)
    /\ IdleSim
    /\ IdleChange /\ IdleTotal

\* samp.bootstrap()
BootstrapSample ==
    /\ pc = "done"
    /\ samp.exc = "none"
    /\ \E b \in {Sample_bootstrap(samp, rng)} :
          /\ samp' = b.self
          /\ rng' = b.rng
    /\ UNCHANGED <<laterVars, pc, sites_list, stratum, conversion, changeVars,
                   totalVars, simVars>>

NextBoot == NewSampleStats \/ BootstrapSample

SpecBoot == InitBoot /\ [][NextBoot]_vars
-----------------------------------------------------------------------------
(* Claims about the SampleStats object and its sites *)

\* the statistics of SampleStats.__init__ computed from the sites the
\* object holds now
Recomputed(self) ==
    SampleStats_estimates(SampleStats_ratio(SampleStats_stats(self)))

\* the lists of the object are those of its sites
ListsCurrent(self) ==
    /\ self.ni = Len(self.sites)
    /\ \A i \in 1..Len(self.sites) :
          /\ self.site_ids[i] = self.sites[i].id
          /\ self.zm_areas[i] = self.sites[i].zmArea
          /\ self.zm_vars[i] = self.sites[i].zmAreaVar
    /\ Len(self.site_ids) = Len(self.sites)
    /\ Len(self.zm_areas) = Len(self.sites)
    /\ Len(self.zm_vars) = Len(self.sites)

(* C24 (under SpecBoot): after its construction and after every call of    *)
(* bootstrap(), a SampleStats object has ni = len(sites), its site_ids,    *)
(* zm_areas and zm_vars are those of its sites index by index, and its     *)
(* meanZmArea, variance, zm_area, zm_area_var, se and cv are the values    *)
(* computed from the sites it holds.                                       *)
C24_DerivedValuesCurrent ==
    (pc = "done" /\ samp.exc = "none") =>
        /\ ListsCurrent(samp)
        /\ Recomputed(samp).exc = "none"
        /\ samp.meanZmArea = Recomputed(samp).meanZmArea
        /\ samp.variance = Recomputed(samp).variance
        /\ samp.zm_area = Recomputed(samp).zm_area
        /\ samp.zm_area_var = Recomputed(samp).zm_area_var
        /\ samp.se = Recomputed(samp).se
        /\ samp.cv = Recomputed(samp).cv

\* the lists and the count follow the sites through every bootstrap
C24_ListsCurrent ==
    (pc = "done" /\ samp.exc = "none") => ListsCurrent(samp)

\* a resampled object whose statistics are those of the sites it was
\* constructed from
C24_StaleStatistics ==
    /\ pc = "done" /\ samp.exc = "none"
    /\ samp.site_ids # [i \in 1..Len(sites_list) |-> sites_list[i][1]]
    /\ samp.zm_area = SampleStats(sites_list, stratum, conversion).zm_area
    /\ samp.zm_area # Recomputed(samp).zm_area
-----------------------------------------------------------------------------
(* Specification SpecSparse: the area change of one stratum whose sites    *)
(* hold little eelgrass, some with a variance above the square of the      *)
(* area.  The lists are those the queries return; every year-1 site is     *)
(* sampled in both years.                                                  *)

\* <<zmArea, zmAreaVar>> a site may have in either year, in square metres
SparseVals == { <<0, 0>>, <<1, 4>>, <<2, 1>> }

InitSparse ==
    /\ IdleLater
    /\ pc = "query"
    /\ conversion \in {NoConv, "sf2m"}
    /\ stratum \in ChangeStrata(conversion)
    /\ \E n \in 2..MaxMatched :
       \E v1 \in [1..n -> SparseVals], v2 \in [1..n -> SparseVals] :
          LET x == stratum.extrapolation
          IN  /\ y1_data = [id \in 1..n |-> DataRow(id, v1[id], x, conversion)]
              /\ y1match_data = y1_data
              /\ y2match_data = [id \in 1..n |-> DataRow(id, v2[id], x, conversion)]
    /\ y1Samp = None /\ y1mSamp = None /\ y2mSamp = None /\ change = None
    /\ IdleSample /\ IdleTotal /\ IdleMC

NextSparse == SampleCalcs \/ NewChangeStats

SpecSparse == InitSparse /\ [][NextSparse]_vars
-----------------------------------------------------------------------------
(* Claims about the standard error of the area change *)

\* ChangeStats was constructed up to calc_area_change_se
ReachedAreaChangeSe ==
    /\ pc = "done"
    /\ ~RLt(change.slope_var, Zero)

(* C25 (under SpecSparse): for a year-1 sample whose zm_area and           *)
(* zm_area_var are not negative, whatever the slope and its standard       *)
(* error, the variance under the square root of calc_area_change_se is not *)
(* negative and the construction of ChangeStats does not fail on it.       *)
C25_AreaChangeVarianceNonNegative ==
    (/\ ReachedAreaChangeSe
     /\ RLe(Zero, y1Samp.zm_area) /\ RLe(Zero, y1Samp.zm_area_var)) =>
        /\ RLe(Zero, area_change_variance(
                        [change EXCEPT !.m_se = Sqrt(change.slope_var),
                                       !.change_prop = proportion_change(change)],
                        y1mSamp, y2mSamp, y1Samp))
        /\ change.exc = "none"

\* the year-1 variance exceeds the square of the year-1 area and the
\* slope has a standard error: the square root fails
C25_NegativeVariance ==
    /\ ReachedAreaChangeSe
    /\ RLe(Zero, y1Samp.zm_area) /\ RLe(Zero, y1Samp.zm_area_var)
    /\ RLt(RSq(y1Samp.zm_area), y1Samp.zm_area_var)
    /\ RLt(Zero, change.slope_var)
    /\ change.exc = "ValueError"

\* with a year-1 variance of at most the square of the year-1 area the
\* variance of the change is not negative
C25_NonNegativeWhereVarianceSmall ==
    (/\ ReachedAreaChangeSe
     /\ RLe(Zero, y1Samp.zm_area)
     /\ RLe(Zero, y1Samp.zm_area_var)
     /\ RLe(y1Samp.zm_area_var, RSq(y1Samp.zm_area))) =>
        change.exc = "none"
-----------------------------------------------------------------------------
(* Claims about the variance of the stratum estimate *)

\* an extrapolated sample of 2 to Ni sites
SampledWithinStratum ==
    /\ pc = "done"
    /\ samp.stratum.extrapolation \in {"area", "linear"}
    /\ 2 <= samp.ni /\ samp.ni <= samp.stratum.Ni
    /\ \A i \in 1..Len(samp.sites) : RLe(Zero, samp.sites[i].zmAreaVar)

\* the within-site term of the variance when every site of the stratum is
\* sampled
WithinSiteTerm(self) ==
    IF self.stratum.extrapolation = "area"
    THEN Total(self.zm_vars, self.ni)
    ELSE RMul(RSq(RDiv(self.stratum.LT, self.stratum.LN)),
              Total(self.zm_vars, self.ni))

(* C26 (under SpecSample): for a sample of 2 <= ni <= Ni sites with        *)
(* non-negative site variances and 'area' or 'linear' extrapolation,       *)
(* SampleStats is constructed with zm_area_var >= 0 and se its square      *)
(* root; with ni = Ni the variance is the within-site term alone.          *)
C26_StratumVarianceNonNegative ==
    SampledWithinStratum =>
        /\ samp.exc = "none"
        /\ RLe(Zero, samp.zm_area_var)
        /\ samp.se = Sqrt(samp.zm_area_var)
        /\ samp.ni = samp.stratum.Ni => samp.zm_area_var = WithinSiteTerm(samp)

\* fewer sites than the stratum has, of different areas: both terms count
C26_Witness ==
    /\ SampledWithinStratum
    /\ samp.ni < samp.stratum.Ni
    /\ samp.exc = "none"
    /\ \E i, j \in 1..Len(samp.sites) : samp.sites[i].zmArea # samp.sites[j].zmArea
    /\ RLt(Zero, Total(samp.zm_vars, samp.ni))
    /\ RLt(Zero, samp.zm_area_var)

\* every site of the stratum sampled, of different areas
C26_AllSitesSampled ==
    /\ SampledWithinStratum
    /\ samp.ni = samp.stratum.Ni
    /\ \E i, j \in 1..Len(samp.sites) : samp.sites[i].zmArea # samp.sites[j].zmArea
    /\ samp.zm_area_var = WithinSiteTerm(samp)
    /\ RLt(Zero, samp.zm_area_var)
-----------------------------------------------------------------------------
(* Specification SpecDraws: one call of measurement_error(data) with draws *)
(* that are not determined in advance.  rng holds the raw value the        *)
(* generator returned last.  The generator is fair: while the while loop   *)
(* waits, a value above zero is drawn sooner or later.                     *)

\* rows with a negative area come from no survey; they show where the
\* loop cannot end
DrawRowVals == MERowVals \cup { <<-1, 0>>, <<-1, 4>> }

InitDraws ==
    /\ IdleLater
    /\ pc = "me"
    /\ stratum = None /\ conversion = None
    /\ \E n \in 0..MaxMERows, wide \in BOOLEAN :
       \E vs \in [1..n -> DrawRowVals] :
          y1 = [id \in 1..n |-> MERow(id, vs[id], wide)]
    /\ me = measurement_error_call(y1, "data")
    /\ rng = <<>>
    /\ y1m = None /\ y2m = None
    /\ me1 = None /\ me1m = None /\ me2m = None
    /\ IdleSample /\ IdleChange /\ IdleTotal

\* for site in newdata: the first draw for the site, of any value
DrawFirst ==
    /\ pc = "me"
    /\ me.k <= Len(me.newdata)
    /\ me.sim_zmArea = None
    /\ \E r \in ZRaws :
          /\ me' = measurement_error_draw(me, <<r>>)
          /\ rng' = <<r>>
    /\ UNCHANGED <<laterVars, pc, stratum, conversion, sampleVars, changeVars,
                   totalVars, y1, y1m, y2m, me1, me1m, me2m>>

\* while sim_zmArea < 0: another draw for the same site, of any value
DrawAgain ==
    /\ pc = "me"
    /\ me.sim_zmArea # None
    /\ \E r \in ZRaws :
          /\ me' = measurement_error_draw(me, <<r>>)
          /\ rng' = <<r>>
    /\ UNCHANGED <<laterVars, pc, stratum, conversion, sampleVars, changeVars,
                   totalVars, y1, y1m, y2m, me1, me1m, me2m>>

NextDraws == DrawFirst \/ DrawAgain \/ Return

\* the loops go on, and the while loop does not draw values below or at
\* zero for ever
FairDraws ==
    /\ WF_vars(DrawFirst)
    /\ WF_vars(Return)
    /\ WF_vars(DrawAgain /\ normalvariate(rng') > 0)

SpecDraws == InitDraws /\ [][NextDraws]_vars /\ FairDraws
-----------------------------------------------------------------------------
(* Claims about the end of measurement_error *)

\* every site of the list has an area and a variance that are not negative
NonNegativeRows(data) ==
    \A i \in 1..Len(data) : RLe(Zero, data[i][2]) /\ RLe(Zero, data[i][3])

\* a site with a negative area and no variance
StuckRow(data) ==
    \E i \in 1..Len(data) : RLt(data[i][2], Zero) /\ RIsZero(data[i][3])

C27_NonNegativeDrawAccepted ==
    (/\ pc = "me"
     /\ me.sim_zmArea # None
     /\ RLe(Zero, me.newdata[me.k][2])) => normalvariate(rng) < 0

\* whatever the rows, the call returns unless a site has a negative area
\* and no variance
C27_ReturnsUnlessStuck ==
    (pc = "me" /\ ~StuckRow(y1)) ~> (pc = "done")

\* with such a site the call never returns
C27_StuckNeverReturns ==
    StuckRow(y1) => pc # "done"
-----------------------------------------------------------------------------
(* Specification SpecFlags: get_Flags reads the control file of a site,    *)
(* one line at a time.  A line is <<attribute, value>>; flagLocals holds   *)
(* the locals trk, maxFlag, minFlag and trkType, the names bound so far    *)
(* and the number of lines read.                                           *)

MaxCtlTracks == 2

ctlMinAtt == "MinDepth"
ctlMaxAtt == "MaxDepth"
ctlTrkAtt == "Track"
ctlTrktypeAtt == "TrackType"
ctlYes == "Yes"
ctlNo == "No"

\* a line a block may lack
Absent == "absent"

\* the lines of the block of track t
CtlBlock(t, trkType, maxDep, minDep) ==
    <<<<ctlTrkAtt, t>>>>
    \o (IF trkType = Absent THEN <<>> ELSE <<<<ctlTrktypeAtt, trkType>>>>)
    \o (IF maxDep = Absent THEN <<>> ELSE <<<<ctlMaxAtt, maxDep>>>>)
    \o (IF minDep = Absent THEN <<>> ELSE <<<<ctlMinAtt, minDep>>>>)

CtlBlocks(t) ==
    { CtlBlock(t, trkType, maxDep, minDep) :
        trkType \in {Absent, "SLPR", "ALPR"},
        maxDep \in {Absent, ctlYes, ctlNo},
        minDep \in {Absent, ctlYes, ctlNo} }

RECURSIVE CtlFiles(_)
CtlFiles(n) ==
    IF n = 0 THEN { <<>> }
    ELSE { f \o b : f \in CtlFiles(n - 1), b \in CtlBlocks(n) }

InitFlags ==
    /\ pc = "get_Flags"
    /\ \E n \in 1..MaxCtlTracks : ctlFile \in CtlFiles(n)
    /\ flagLocals = [trk |-> 0, maxFlag |-> 0, minFlag |-> 0, trkType |-> "",
                     bound |-> {}, line |-> 0]
    /\ trkFlagDict = <<>>
    /\ tracks = None /\ trkAcc = None /\ trkRows = None /\ allTrkStats = None
    /\ IdleEstimates /\ IdleSite /\ IdleDb
    /\ IdleLookup /\ IdleObj /\ IdleSurvey

\* trkFlagDict[trk] = [maxFlag,minFlag,trkType]
store_flags(dict, l) ==
    (l.trk :> <<l.maxFlag, l.minFlag, l.trkType>>) @@ dict

\* the statement reads maxFlag, minFlag and trkType
AllBound(l) == {"maxFlag", "minFlag", "trkType"} \subseteq l.bound

\* Yes/No to 1/0; another value leaves the flag as it is
flag_of(val, flag) ==
    IF val = ctlYes THEN 1 ELSE IF val = ctlNo THEN 0 ELSE flag

\* the body of the for loop for one line
read_line(l, att, val) ==
    CASE att = ctlTrkAtt -> [l EXCEPT !.trk = val]
      [] att = ctlTrktypeAtt ->
            [l EXCEPT !.trkType = val, !.bound = @ \cup {"trkType"}]
      [] att = ctlMaxAtt ->
            [l EXCEPT !.maxFlag = flag_of(val, @),
                      !.bound = IF val \in {ctlYes, ctlNo}
                                THEN @ \cup {"maxFlag"} ELSE @]
      [] att = ctlMinAtt ->
            [l EXCEPT !.minFlag = flag_of(val, @),
                      !.bound = IF val \in {ctlYes, ctlNo}
                                THEN @ \cup {"minFlag"} ELSE @]
      [] OTHER -> l

\* for line in open(ctlFile): one line; a Track line after the first
\* stores the flags of the track before it
ReadLine ==
    /\ pc = "get_Flags"
    /\ flagLocals.line < Len(ctlFile)
    /\ LET att == ctlFile[flagLocals.line + 1][1]
           val == ctlFile[flagLocals.line + 1][2]
           stores == att = ctlTrkAtt /\ flagLocals.trk > 0
       IN  IF stores /\ ~AllBound(flagLocals)
           THEN /\ pc' = "UnboundLocalError"
                /\ UNCHANGED <<flagLocals, trkFlagDict>>
           ELSE /\ trkFlagDict' = IF stores THEN store_flags(trkFlagDict, flagLocals)
                                  ELSE trkFlagDict
                /\ flagLocals' = [read_line(flagLocals, att, val)
                                    EXCEPT !.line = @ + 1]
                /\ pc' = pc
    /\ UNCHANGED <<stratum, conversion, sampleVars, changeVars, totalVars, mcVars,
                   ciVars, runVars, tracks, trkAcc, trkRows, allTrkStats,
                   siteVars, dbVars, lookupVars, objVars, surveyVars, ctlFile>>

\* after the loop: the flags of the final track, and return trkFlagDict
ReturnFlags ==
    /\ pc = "get_Flags"
    /\ flagLocals.line = Len(ctlFile)
    /\ IF AllBound(flagLocals)
       THEN /\ trkFlagDict' = store_flags(trkFlagDict, flagLocals)
            /\ pc' = "returned"
       ELSE /\ pc' = "UnboundLocalError"
            /\ UNCHANGED trkFlagDict
    /\ UNCHANGED <<stratum, conversion, sampleVars, changeVars, totalVars, mcVars,
                   ciVars, runVars, tracks, trkAcc, trkRows, allTrkStats,
                   siteVars, dbVars, lookupVars, objVars, surveyVars, ctlVars>>

NextFlags == ReadLine \/ ReturnFlags

SpecFlags == InitFlags /\ [][NextFlags]_vars
-----------------------------------------------------------------------------
(* Claims about the flags of the control file *)

\* the track numbers the Track lines of the file list
ListedTracks == { ctlFile[i][2] : i \in {j \in 1..Len(ctlFile) : ctlFile[j][1] = ctlTrkAtt} }

\* the track in whose block line i stands: that of the last Track line up
\* to i
RECURSIVE BlockOf(_)
BlockOf(i) ==
    IF i = 0 THEN 0
    ELSE IF ctlFile[i][1] = ctlTrkAtt THEN ctlFile[i][2] ELSE BlockOf(i - 1)

\* the values the lines of attribute att give in the block of track t
OwnValues(t, att) ==
    { ctlFile[i][2] : i \in {j \in 1..Len(ctlFile) :
                               ctlFile[j][1] = att /\ BlockOf(j) = t} }

\* the entry of track t comes from the lines of its own block
FromOwnBlock(t) ==
    /\ t \in DOMAIN trkFlagDict
    /\ \E v \in OwnValues(t, ctlMaxAtt) : trkFlagDict[t][1] = flag_of(v, 0)
    /\ \E v \in OwnValues(t, ctlMinAtt) : trkFlagDict[t][2] = flag_of(v, 0)
    /\ trkFlagDict[t][3] \in OwnValues(t, ctlTrktypeAtt)

\* every block holds its TrackType, MaxDepth and MinDepth line
CompleteBlocks ==
    \A t \in ListedTracks :
       /\ OwnValues(t, ctlMaxAtt) # {}
       /\ OwnValues(t, ctlMinAtt) # {}
       /\ OwnValues(t, ctlTrktypeAtt) # {}

(* C28 (under SpecFlags): get_Flags ends by returning a dictionary in      *)
(* which every track listed by a Track line, the last included, has an     *)
(* entry [maxFlag, minFlag, trkType] whose three values are given by the   *)
(* lines of the track's own block; nothing is carried over from the block  *)
(* of a preceding track.                                                   *)
C28_FlagsFromOwnBlock ==
    /\ pc # "UnboundLocalError"
    /\ pc = "returned" => \A t \in ListedTracks : FromOwnBlock(t)

\* the second block has no MaxDepth line and the entry of its track holds
\* the flag of the first
C28_FlagCarriedOver ==
    /\ pc = "returned"
    /\ OwnValues(1, ctlMaxAtt) = {ctlYes}
    /\ OwnValues(2, ctlMaxAtt) = {}
    /\ OwnValues(2, ctlMinAtt) = {ctlNo}
    /\ 2 \in DOMAIN trkFlagDict
    /\ trkFlagDict[2][1] = 1

\* files whose blocks are complete: every track has the entry of its block
C28_CompleteBlocksFromOwnBlock ==
    CompleteBlocks =>
        /\ pc # "UnboundLocalError"
        /\ pc = "returned" =>
              /\ DOMAIN trkFlagDict = ListedTracks
              /\ \A t \in ListedTracks : FromOwnBlock(t)
-----------------------------------------------------------------------------
(* Specification SpecSurveys: a statsdb.Transect object imports its        *)
(* surveys from survey_dict, survey id -> [maxdepflag, mindepflag,         *)
(* sitevisit], in the order the dictionary yields them.                    *)

MaxSurveys == 3

\* Survey.__init__
Survey(id, maxdepflag_, mindepflag_, sitevisit) ==
    [id |-> id, maxdepflag |-> maxdepflag_, mindepflag |-> mindepflag_,
     sitevisit |-> sitevisit]

\* Transect._survey_attrs
_survey_attrs_maxdepflag(svs) == [i \in 1..Len(svs) |-> svs[i].maxdepflag]
_survey_attrs_mindepflag(svs) == [i \in 1..Len(svs) |-> svs[i].mindepflag]

\* Python's max() of a list that is not empty
max_of(s) == CHOOSE m \in {s[i] : i \in 1..Len(s)} : \A i \in 1..Len(s) : s[i] <= m

\* the properties Transect.maxdepflag and Transect.mindepflag
Transect_maxdepflag(svs) == max_of(_survey_attrs_maxdepflag(svs))
Transect_mindepflag(svs) == max_of(_survey_attrs_maxdepflag(svs))

InitSurveys ==
    /\ pc = "importSurveys"
    /\ \E n \in 1..MaxSurveys :
          survey_dict \in [1..n -> {0, 1} \X {0, 1} \X {"visit"}]
    /\ surveys = <<>>
    /\ IdleEstimates /\ IdleStatsdb /\ IdleLookup /\ IdleObj /\ IdleCtl

\* for s, atts in survey_dict.items(): one survey, in any order of the keys
AddSurvey ==
    /\ pc = "importSurveys"
    /\ \E s \in DOMAIN survey_dict \ {surveys[i].id : i \in 1..Len(surveys)} :
          LET atts == survey_dict[s]
          IN  surveys' = Append(surveys, Survey(s, atts[1], atts[2], atts[3]))
    /\ pc' = IF Len(surveys') = Cardinality(DOMAIN survey_dict)
             THEN "transect" ELSE pc
    /\ UNCHANGED <<stratum, conversion, sampleVars, changeVars, totalVars, mcVars,
                   ciVars, runVars, statsdbVars, lookupVars, objVars, ctlVars,
                   survey_dict>>

NextSurveys == AddSurvey

SpecSurveys == InitSurveys /\ [][NextSurveys]_vars
-----------------------------------------------------------------------------
(* Claims about the depth flags of a transect *)

\* the flags of the surveys of the dictionary
DictMaxFlags == {survey_dict[s][1] : s \in DOMAIN survey_dict}
DictMinFlags == {survey_dict[s][2] : s \in DOMAIN survey_dict}

(* C29 (under SpecSurveys): for a transect that has imported at least one  *)
(* survey, maxdepflag is the largest maxdepflag of its surveys and         *)
(* mindepflag the largest mindepflag of its surveys.                       *)
C29_TransectDepthFlags ==
    (pc = "transect" /\ Len(surveys) >= 1) =>
        /\ Transect_maxdepflag(surveys) \in DictMaxFlags
        /\ \A f \in DictMaxFlags : f <= Transect_maxdepflag(surveys)
        /\ Transect_mindepflag(surveys) \in DictMinFlags
        /\ \A f \in DictMinFlags : f <= Transect_mindepflag(surveys)

\* maxdepflag is the largest maxdepflag of the surveys
C29_MaxDepFlag ==
    (pc = "transect" /\ Len(surveys) >= 1) =>
        /\ Transect_maxdepflag(surveys) \in DictMaxFlags
        /\ \A f \in DictMaxFlags : f <= Transect_maxdepflag(surveys)

\* a survey with the minimum depth flag and none with the maximum depth
\* flag: mindepflag is 0
C29_MinFlagLost ==
    /\ pc = "transect"
    /\ DictMaxFlags = {0}
    /\ 1 \in DictMinFlags
    /\ Transect_mindepflag(surveys) = 0
-----------------------------------------------------------------------------
(* Claims about the null depth in svmp_10x.SiteStatistics (checked under   *)
(* SpecSite)                                                               *)

\* min() and max() of a list of depths; ValueError for an empty list
depth_min(l) ==
    IF Len(l) = 0 THEN [exc |-> "ValueError", val |-> None]
    ELSE [exc |-> "none",
          val |-> CHOOSE d \in {l[i] : i \in 1..Len(l)} :
                     \A i \in 1..Len(l) : RLe(d, l[i])]
depth_max(l) ==
    IF Len(l) = 0 THEN [exc |-> "ValueError", val |-> None]
    ELSE [exc |-> "none",
          val |-> CHOOSE d \in {l[i] : i \in 1..Len(l)} :
                     \A i \in 1..Len(l) : RLe(l[i], d)]

\* SiteStatistics.veg_maxd_deepest and veg_mind_shallowest: over the depths
\* of all transects
veg_maxd_deepest(table) == depth_min(column(table, "zm_maxdep"))
veg_mind_shallowest(table) == depth_max(column(table, "zm_mindep"))

\* the depths of column depCol that are not the null depth
RealDepths(depCol) ==
    LET real(row) == row[depCol] # Rat(nullDep)
    IN  column(SelectSeq(trans_table, real), depCol)

\* the aggregate agg is that of the list l of real depths, the null depth
\* for an empty list
AggregateOfReal(agg, l, real) ==
    /\ agg.exc = "none"
    /\ agg.val = IF Len(l) = 0 THEN Rat(nullDep) ELSE real

(* C30 (under SpecSite): svmp_10x.SiteStatistics leaves the transects      *)
(* whose depth is the null depth -9999 out of max_deps_4stats and          *)
(* min_deps_4stats: veg_maxd_mean and veg_mind_mean are the means of the   *)
(* flagged depths that are not null, veg_maxd_deepest and                  *)
(* veg_mind_shallowest the deepest and the shallowest depth that is not    *)
(* null, and each is the null depth when no transect has such a depth.     *)
C30_NullDepthIsMissingData ==
    siteStats10x # None =>
        LET s == siteStats10x.stats
            maxd == QualifyingDepths("zm_maxdep", "maxflag")
            mind == QualifyingDepths("zm_mindep", "minflag")
        IN  /\ get_depths4stats(trans_table, "zm_maxdep", "maxflag") = maxd
            /\ get_depths4stats(trans_table, "zm_mindep", "minflag") = mind
            /\ AggregateOfReal(s.veg_maxd.mean, maxd,
                               RDiv(sum(maxd), Rat(Len(maxd))))
            /\ AggregateOfReal(s.veg_mind.mean, mind,
                               RDiv(sum(mind), Rat(Len(mind))))
            /\ AggregateOfReal(veg_maxd_deepest(trans_table),
                               RealDepths("zm_maxdep"),
                               depth_min(RealDepths("zm_maxdep")).val)
            /\ AggregateOfReal(veg_mind_shallowest(trans_table),
                               RealDepths("zm_mindep"),
                               depth_max(RealDepths("zm_mindep")).val)

\* a flagged transect without vegetation beside one with a depth: the null
\* depth is in the mean and is the deepest depth
C30_NullDepthInAggregates ==
    /\ siteStats10x # None
    /\ Len(QualifyingDepths("zm_maxdep", "maxflag")) > 0
    /\ Len(get_depths4stats(trans_table, "zm_maxdep", "maxflag"))
          > Len(QualifyingDepths("zm_maxdep", "maxflag"))
    /\ siteStats10x.stats.veg_maxd.mean.exc = "none"
    /\ RLt(siteStats10x.stats.veg_maxd.mean.val,
           depth_min(RealDepths("zm_maxdep")).val)
    /\ veg_maxd_deepest(trans_table).val = Rat(nullDep)

\* with a transect that has a minimum depth the shallowest depth is never
\* the null depth, and without one it is
C30_ShallowestNeverNull ==
    (siteStats10x # None /\ Len(trans_table) > 0) =>
        AggregateOfReal(veg_mind_shallowest(trans_table),
                        RealDepths("zm_mindep"),
                        depth_max(RealDepths("zm_mindep")).val)

====
